---- MODULE Spec2Model ----
(***************************************************************************)
(* ADMG backend (app/backend/src/index.ts): the tenant-scoped access       *)
(* guard, the plan limiter and the resource endpoints they gate, over the  *)
(* relational store declared by the Prisma migrations.                     *)
(***************************************************************************)
EXTENDS Integers, Sequences, FiniteSets, TLC

VARIABLES
    usuarios,     \* table Usuario: id -> row
    tokens,       \* the session tokens issued so far (signed payloads)
    condominios,  \* table Condominio: id -> row
    unidades,     \* table Unidade: id -> row
    moradores,    \* table Morador: id -> row
    lancamentos,  \* table Lancamento: id -> row
    nextId,       \* per table, how many ids the store has generated
    lastReq,      \* the request handled last and the response it got
    nReq,         \* how many requests have been handled
    gUser,        \* canAccessCondominio: the `user` argument
    gCond,        \* canAccessCondominio: the `condominio` argument
    gResult,      \* canAccessCondominio: the value returned
    gPc,          \* "call" before the function is applied, "done" after
    contas,       \* table Usuario, the columns of authentication: id -> row
    now,          \* Date.now(), in milliseconds since the server started
    nTicks,       \* how many times the clock has been advanced
    loginAttempts,\* the Map of isRateLimited: key -> [count, firstAt]
    authIds,      \* how many Usuario ids, Administradora ids, raw tokens were generated
    tokenLog,     \* history: raw token -> what it was issued for, when, and its use
    states,       \* the OAuth states signState has signed
    inflight,     \* the Google callbacks between their lookup and their write
    attemptLog    \* history: rate key -> the attempts of its current window

userVars == <<usuarios, tokens>>

dbVars == <<condominios, unidades, moradores, lancamentos, nextId>>

reqVars == <<lastReq, nReq>>

guardVars == <<gUser, gCond, gResult, gPc>>

authVars ==
    <<contas, now, nTicks, loginAttempts, authIds, tokenLog, states, inflight, attemptLog>>

vars == <<usuarios, tokens, condominios, unidades, moradores, lancamentos, nextId,
          lastReq, nReq, gUser, gCond, gResult, gPc, contas, now, nTicks,
          loginAttempts, authIds, tokenLog, states, inflight, attemptLog>>

\* A null / undefined / empty value of the program.
NULL == "NULL"

Roles == {"ADMINISTRADORA", "OPERADOR", "SINDICO"}

AdministradoraIds == {"a1", "a2"}

CondominioIdPool == <<"c1", "c2", "c3", "c4", "c5", "c6", "c7", "c8">>

\* req.user when no user is attached to the request.
Absent == [id |-> NULL, role |-> NULL, administradoraId |-> NULL, condominioId |-> NULL]

---------------------------------------------------------------------------
\* The access guard.

\* Mutant: any authenticated user passes the role gate.
isAdminOrOperator_AnyUser(user) == user # Absent

isAdminOrOperator(user) ==
    /\ user # Absent
    /\ (user.role = "ADMINISTRADORA" \/ user.role = "OPERADOR")

\* Mutant: a SINDICO falls back to the tenant comparison.
canAccessCondominio_SindicoFallback(user, condominio) ==
    IF user = Absent THEN FALSE
    ELSE IF user.role = "SINDICO" /\ user.condominioId = condominio.id THEN TRUE
    ELSE IF user.administradoraId # NULL
         THEN condominio.administradoraId = user.administradoraId
    ELSE FALSE

\* Mutant: the tenant comparison is made without requiring the actor's id.
canAccessCondominio_NullMatch(user, condominio) ==
    IF user = Absent THEN FALSE
    ELSE IF user.role = "SINDICO" THEN user.condominioId = condominio.id
    ELSE condominio.administradoraId = user.administradoraId

canAccessCondominio(user, condominio) ==
    IF user = Absent THEN FALSE
    ELSE IF user.role = "SINDICO" THEN user.condominioId = condominio.id
    ELSE IF user.administradoraId # NULL
         THEN condominio.administradoraId = user.administradoraId
    ELSE FALSE

---------------------------------------------------------------------------
\* The relational store.

\* A request field that is not sent.
UNDEF == "UNDEF"

Planos == {"FREEMIUM", "ESSENCIAL", "PROFISSIONAL", "ESCALA"}

\* Ids in the order the store generates them.
UnidadeIdPool ==
    <<"un01", "un02", "un03", "un04", "un05", "un06", "un07", "un08", "un09", "un10",
      "un11", "un12", "un13", "un14", "un15", "un16", "un17", "un18", "un19", "un20",
      "un21", "un22">>

MoradorIdPool == <<"m1", "m2", "m3", "m4", "m5", "m6", "m7", "m8">>

LancamentoIdPool == <<"l1", "l2", "l3", "l4", "l5", "l6", "l7", "l8">>

\* How many requests a behaviour handles: of the whole API, and of the
\* plan-limited routes starting next to the limit.
MaxApiRequests == 2

MaxPlanRequests == 3

\* Unidades of Condominio c1 before the first request of the whole API.
ApiUnidades == 1

\* plano FREEMIUM: Condominios per Administradora, Unidades per Condominio.
FreemiumMaxCondominios == 1

FreemiumMaxUnidades == 15

\* findMany's `take` of each listing.
TakeCondominios == 50

TakeUnidades == 100

TakeMoradores == 200

TakeLancamentos == 200

EmptyTable == [x \in {} |-> NULL]

Insert(table, id, row) ==
    [x \in DOMAIN table \cup {id} |-> IF x = id THEN row ELSE table[x]]

Remove(table, id) == [x \in DOMAIN table \ {id} |-> table[x]]

\* The position of an id in the order of generation (createdAt order).
PoolIndex(pool, id) == CHOOSE i \in 1..Len(pool) : pool[i] = id

\* orderBy createdAt desc, take n: the n rows created last.
Newest(pool, ids, n) ==
    IF Cardinality(ids) <= n THEN ids
    ELSE {x \in ids :
            Cardinality({y \in ids : PoolIndex(pool, y) > PoolIndex(pool, x)}) < n}

\* String(v).trim() on the texts of the model.
Trim(v) == IF v = " " THEN "" ELSE v

\* String(v).toUpperCase() on the texts of the model.
ToUpperCase(v) ==
    CASE v = "essencial" -> "ESSENCIAL"
      [] v = "receita" -> "RECEITA"
      [] OTHER -> v

\* String(v || "").trim()
TextOrEmpty(v) == IF v \in {UNDEF, NULL, ""} THEN "" ELSE Trim(v)

\* v ? String(v).trim() : null, stored as `text || null`
TextOrNull(v) ==
    IF v \in {UNDEF, NULL, ""} THEN NULL
    ELSE IF Trim(v) = "" THEN NULL ELSE Trim(v)

\* PATCH: String(v).trim() || null of a field that was sent
PatchOrNull(v) == IF Trim(v) = "" THEN NULL ELSE Trim(v)

\* The payload signToken signs for a Usuario row.
TokenOf(id, row) ==
    [id |-> id, role |-> row.role, administradoraId |-> row.administradoraId,
     condominioId |-> row.condominioId]

CondominioRow(adm) ==
    [nome |-> "n1", cnpj |-> NULL, endereco |-> NULL, administradoraId |-> adm]

UsuarioRow(role, adm, cond, plano) ==
    [role |-> role, administradoraId |-> adm, condominioId |-> cond,
     plano |-> plano, onboarded |-> TRUE]

\* The rows provisioned before the first request: one tenant with two
\* Condominios, an administrator, an operator and a board-member; a second
\* tenant on the free plan; a self-registered board-member, whose Condominio
\* has no owner; an operator provisioned without a tenant.
InitUsuarios ==
    [u \in {"u1", "u2", "u3", "u4", "u5", "u6"} |->
        CASE u = "u1" -> UsuarioRow("ADMINISTRADORA", "a1", NULL, "PROFISSIONAL")
          [] u = "u2" -> UsuarioRow("OPERADOR", "a1", NULL, "PROFISSIONAL")
          [] u = "u3" -> UsuarioRow("ADMINISTRADORA", "a2", NULL, "FREEMIUM")
          [] u = "u4" -> UsuarioRow("SINDICO", "a1", "c1", "PROFISSIONAL")
          [] u = "u5" -> UsuarioRow("SINDICO", NULL, "c4", "FREEMIUM")
          [] OTHER    -> UsuarioRow("OPERADOR", NULL, NULL, "PROFISSIONAL")]

InitCondominios ==
    [c \in {"c1", "c2", "c3", "c4"} |->
        CASE c \in {"c1", "c2"} -> CondominioRow("a1")
          [] c = "c3" -> CondominioRow("a2")
          [] OTHER -> CondominioRow(NULL)]

\* Condominio c1 holds n Unidades, c2 one.
InitUnidades(n) ==
    [i \in {UnidadeIdPool[k] : k \in 1..(n + 1)} |->
        [identificador |-> "x", tipo |-> NULL,
         condominioId |-> IF i = UnidadeIdPool[n + 1] THEN "c2" ELSE "c1"]]

\* One Morador in the first Unidade of c1, one in the Unidade of c2.
InitMoradores(n) ==
    [m \in {"m1", "m2"} |->
        [nome |-> "x", documento |-> NULL, contato |-> NULL,
         unidadeId |-> IF m = "m1" THEN UnidadeIdPool[1] ELSE UnidadeIdPool[n + 1]]]

InitLancamentos ==
    [l \in {"l1", "l2"} |->
        [tipo |-> "DESPESA", valor |-> <<"1", "0", ".", "5">>, data |-> "2026-01-05", categoria |-> NULL,
         descricao |-> NULL, condominioId |-> IF l = "l1" THEN "c1" ELSE "c2"]]

---------------------------------------------------------------------------
\* Authentication: the columns of Usuario it reads and writes, the clock, the
\* raw tokens and the rate limiter's Map.

UsuarioIdPool == <<"u1", "u2", "u3", "u4", "u5", "u6", "u7", "u8", "u9", "u10">>

AdministradoraIdPool == <<"a1", "a2", "a3", "a4", "a5", "a6">>

\* generateToken(): each call returns a value never returned before.
TokenPool == <<"t1", "t2", "t3", "t4", "t5", "t6">>

EMAIL_VERIFY_TTL_MS == 24 * 60 * 60 * 1000

RESET_TTL_MS == 60 * 60 * 1000

MIN_PASSWORD_LENGTH == 8

\* isRateLimited(rateKey, 10, 15 * 60 * 1000)
LoginLimit == 10

LoginWindowMs == 15 * 60 * 1000

\* A token column that holds null.
NoHash == <<>>

\* A date column that holds null: no comparison with an instant is true of it.
NoDate == -1

\* hashToken(token): the SHA-256 digest, one per token.
hashToken(token) == <<"sha256", token>>

\* hashPassword(senha) and verifyPassword(senha, hash) of auth.js.
hashPassword(senha) == <<"bcrypt", senha>>

verifyPassword(senha, hash) == hash = hashPassword(senha)

\* The password of the provisioned users, and texts of 7 and 8 characters.
SenhaSeed == <<"a", "d", "m", "i", "n", "1", "2", "3">>

SenhaNova == <<"n", "o", "v", "a", "5", "6", "7", "8">>

SenhaCurta == <<"c", "u", "r", "t", "a", "1", "2">>

\* String(v).toLowerCase() on the texts of the model.
ToLowerCase(v) == IF v = "E1" THEN "e1" ELSE v

ContaRow(email, senhaHash, verificado, token, expires) ==
    [email |-> email, senhaHash |-> senhaHash, authProvider |-> "LOCAL",
     emailVerificado |-> verificado,
     emailVerificationToken |-> token, emailVerificationExpires |-> expires,
     passwordResetToken |-> NoHash, passwordResetExpires |-> NoDate,
     googleId |-> NULL]

\* upsertUser: the provisioned users are verified and hold no token.
InitContas ==
    [u \in DOMAIN InitUsuarios |->
        ContaRow(CASE u = "u1" -> "e1" [] u = "u2" -> "e2" [] u = "u3" -> "e3"
                   [] u = "u4" -> "e4" [] u = "u5" -> "e5" [] OTHER -> "e6",
                 hashPassword(SenhaSeed), TRUE, NoHash, NoDate)]

InitAuth ==
    /\ contas = InitContas
    /\ now = 0
    /\ nTicks = 0
    /\ loginAttempts = EmptyTable
    /\ authIds = [usuario |-> Cardinality(DOMAIN InitUsuarios),
                  administradora |-> Cardinality(AdministradoraIds),
                  token |-> 0]
    /\ tokenLog = EmptyTable
    /\ states = {}
    /\ inflight = {}
    /\ attemptLog = EmptyTable

NoRequest ==
    [op |-> "none", actor |-> Absent, target |-> NULL, status |-> 0, error |-> NULL,
     gate |-> "none", data |-> {}]

InitStore(n) ==
    /\ usuarios = InitUsuarios
    /\ tokens = {TokenOf(u, InitUsuarios[u]) : u \in DOMAIN InitUsuarios}
    /\ condominios = InitCondominios
    /\ unidades = InitUnidades(n)
    /\ moradores = InitMoradores(n)
    /\ lancamentos = InitLancamentos
    /\ nextId = [condominio |-> Cardinality(DOMAIN InitCondominios),
                 unidade |-> n + 1,
                 morador |-> Cardinality(DOMAIN InitMoradores(n)),
                 lancamento |-> Cardinality(DOMAIN InitLancamentos)]
    /\ lastReq = NoRequest
    /\ nReq = 0
    /\ InitAuth

---------------------------------------------------------------------------
\* Requests. Every /api route runs behind requireAuth: the actor is the payload
\* of a token the server has signed.

\* The response of a handler, recorded with the request it answers.
Answer(op, t, target, status, error, gate, data) ==
    /\ lastReq' = [op |-> op, actor |-> t, target |-> target, status |-> status,
                   error |-> error, gate |-> gate, data |-> data]
    /\ nReq' = nReq + 1
    /\ UNCHANGED guardVars

\* The response of a handler that leaves authentication alone.
Respond(op, t, target, status, error, gate, data) ==
    /\ Answer(op, t, target, status, error, gate, data)
    /\ UNCHANGED authVars

Reject(op, t, target, status, error, gate) ==
    /\ Respond(op, t, target, status, error, gate, {})
    /\ UNCHANGED <<userVars, dbVars>>

\* What findUnique returns when no Usuario has the id.
NoUsuario ==
    [role |-> NULL, administradoraId |-> NULL, condominioId |-> NULL, plano |-> NULL,
     onboarded |-> FALSE]

\* prisma.usuario.findUnique({ where: { id } })
FindUsuario(id) == IF id \in DOMAIN usuarios THEN usuarios[id] ELSE NoUsuario

\* prisma.condominio.count({ where: { administradoraId } })
CountCondominios(adm) ==
    Cardinality({c \in DOMAIN condominios : condominios[c].administradoraId = adm})

\* prisma.unidade.count({ where: { condominioId } })
CountUnidades(cid) ==
    Cardinality({u \in DOMAIN unidades : unidades[u].condominioId = cid})

\* The row together with its id, as the handlers pass it to the guard.
CondominioOf(cid) ==
    [id |-> cid, administradoraId |-> condominios[cid].administradoraId]

\* A path parameter: an id of the table, an id the table does not hold, or a
\* blank segment.
PathIds(table, pool) == DOMAIN table \cup {pool[Len(pool)], " "}

NameInputs == {UNDEF, "", "n2"}

\* GET /api/condominios
ListCondominios(t) ==
    /\ LET found ==
               IF t.role = "SINDICO" /\ t.condominioId # NULL
               THEN {c \in DOMAIN condominios : c = t.condominioId}
               ELSE IF t.administradoraId # NULL
               THEN {c \in DOMAIN condominios :
                        condominios[c].administradoraId = t.administradoraId}
               ELSE DOMAIN condominios
       IN  Respond("GET /api/condominios", t, NULL, 200, NULL, "ok",
                   Newest(CondominioIdPool, found, TakeCondominios))
    /\ UNCHANGED <<userVars, dbVars>>

\* Mutant: the plan limit is compared with > instead of >=.
CondominioLimitReached_OffByOne(dbUser) ==
    /\ dbUser # NoUsuario
    /\ dbUser.plano = "FREEMIUM"
    /\ dbUser.administradoraId # NULL
    /\ CountCondominios(dbUser.administradoraId) > FreemiumMaxCondominios

\* POST /api/condominios: the plan limiter.
CondominioLimitReached(dbUser) ==
    /\ dbUser # NoUsuario
    /\ dbUser.plano = "FREEMIUM"
    /\ dbUser.administradoraId # NULL
    /\ CountCondominios(dbUser.administradoraId) >= FreemiumMaxCondominios

\* POST /api/condominios
CreateCondominio(t, body) ==
    LET op == "POST /api/condominios"
        nome == TextOrEmpty(body.nome)
        id == CondominioIdPool[nextId.condominio + 1]
    IN
    /\ nextId.condominio + 1 < Len(CondominioIdPool)
    /\ IF ~isAdminOrOperator(t)
          THEN Reject(op, t, NULL, 403, "forbidden", "role")
       ELSE IF nome = ""
          THEN Reject(op, t, NULL, 400, "nome_obrigatorio", "validation")
       ELSE IF CondominioLimitReached(FindUsuario(t.id))
          THEN Reject(op, t, NULL, 403, "limite_plano", "plan")
       ELSE /\ condominios' = Insert(condominios, id,
                                  [nome |-> nome, cnpj |-> TextOrNull(body.cnpj),
                                   endereco |-> TextOrNull(body.endereco),
                                   administradoraId |-> t.administradoraId])
            /\ nextId' = [nextId EXCEPT !.condominio = @ + 1]
            /\ Respond(op, t, NULL, 201, NULL, "ok", {id})
            /\ UNCHANGED <<userVars, unidades, moradores, lancamentos>>

\* Mutant: an administradoraId sent in the body is written too.
CondominioPatch_Administradora(body) ==
    [f \in {k \in {"nome", "cnpj", "endereco", "administradoraId"} : body[k] # UNDEF} |->
        IF f = "nome" THEN Trim(body.nome) ELSE PatchOrNull(body[f])]

\* The fields a PATCH of a Condominio would write; its keys are the fields sent.
CondominioPatch(body) ==
    [f \in {k \in {"nome", "cnpj", "endereco"} : body[k] # UNDEF} |->
        IF f = "nome" THEN Trim(body.nome) ELSE PatchOrNull(body[f])]

ApplyPatch(row, patch) ==
    [f \in DOMAIN row |-> IF f \in DOMAIN patch THEN patch[f] ELSE row[f]]

\* The tenant test PATCH and DELETE /api/condominios/:id make in place of the guard.
CondominioTenantMismatch(t, cond) ==
    t.administradoraId # NULL /\ cond.administradoraId # t.administradoraId

\* PATCH /api/condominios/:id
UpdateCondominio(t, rawId, body) ==
    LET op == "PATCH /api/condominios/:id"
        id == Trim(rawId)
        patch == CondominioPatch(body)
    IN
    /\ IF ~isAdminOrOperator(t)
          THEN Reject(op, t, id, 403, "forbidden", "role")
       ELSE IF id = ""
          THEN Reject(op, t, id, 400, "id_obrigatorio", "validation")
       ELSE IF id \notin DOMAIN condominios
          THEN Reject(op, t, id, 404, "nao_encontrado", "lookup")
       ELSE IF CondominioTenantMismatch(t, condominios[id])
          THEN Reject(op, t, id, 403, "forbidden", "access")
       ELSE IF "nome" \in DOMAIN patch /\ patch.nome = ""
          THEN Reject(op, t, id, 400, "nome_obrigatorio", "validation")
       ELSE IF DOMAIN patch = {}
          THEN Reject(op, t, id, 400, "nada_para_atualizar", "validation")
       ELSE /\ condominios' = [condominios EXCEPT ![id] = ApplyPatch(@, patch)]
            /\ Respond(op, t, id, 200, NULL, "ok", {id})
            /\ UNCHANGED <<userVars, unidades, moradores, lancamentos, nextId>>

\* Foreign keys of Unidade and Lancamento on Condominio: ON DELETE RESTRICT.
CondominioReferenced(id) ==
    \/ \E u \in DOMAIN unidades : unidades[u].condominioId = id
    \/ \E l \in DOMAIN lancamentos : lancamentos[l].condominioId = id

\* Foreign key of Usuario on Condominio: ON DELETE SET NULL.
SetNullCondominio(id) ==
    [u \in DOMAIN usuarios |->
        IF usuarios[u].condominioId = id
        THEN [usuarios[u] EXCEPT !.condominioId = NULL] ELSE usuarios[u]]

\* DELETE /api/condominios/:id
DeleteCondominio(t, rawId) ==
    LET op == "DELETE /api/condominios/:id"
        id == Trim(rawId)
    IN
    /\ IF t = Absent \/ (t.role # "ADMINISTRADORA" /\ t.role # "OPERADOR")
          THEN Reject(op, t, id, 403, "forbidden", "role")
       ELSE IF id = ""
          THEN Reject(op, t, id, 400, "id_obrigatorio", "validation")
       ELSE IF id \notin DOMAIN condominios
          THEN Reject(op, t, id, 404, "nao_encontrado", "lookup")
       ELSE IF CondominioTenantMismatch(t, condominios[id])
          THEN Reject(op, t, id, 403, "forbidden", "access")
       ELSE IF CondominioReferenced(id)
          THEN Reject(op, t, id, 500, "internal_error", "store")
       ELSE /\ condominios' = Remove(condominios, id)
            /\ usuarios' = SetNullCondominio(id)
            /\ Respond(op, t, id, 204, NULL, "ok", {})
            /\ UNCHANGED <<tokens, unidades, moradores, lancamentos, nextId>>

PlanoInputs == Planos \cup {UNDEF, "essencial", "GRATIS"}

\* POST /auth/onboarding
\* Mutant: an ADMINISTRADORA's onboarding creates a Condominio every time.
OnboardingCreates_Always(user) == user.role = "ADMINISTRADORA"

\* POST /auth/onboarding: `condoCount === 0` for an ADMINISTRADORA.
OnboardingCreates(user) ==
    /\ user.role = "ADMINISTRADORA"
    /\ CountCondominios(user.administradoraId) = 0

Onboarding(t, planoIn, nomeIn) ==
    LET op == "POST /auth/onboarding"
        plano == ToUpperCase(Trim(IF planoIn \in {UNDEF, NULL, ""}
                                  THEN "FREEMIUM" ELSE planoIn))
        condominioNome == TextOrEmpty(nomeIn)
        user == FindUsuario(t.id)
        id == CondominioIdPool[nextId.condominio + 1]
        creates == OnboardingCreates(user)
        renames == /\ user.role = "SINDICO"
                   /\ condominioNome # ""
                   /\ user.condominioId # NULL
    IN
    /\ nextId.condominio + 1 < Len(CondominioIdPool)
    /\ IF plano \notin Planos
          THEN Reject(op, t, NULL, 400, "plano_invalido", "validation")
       ELSE IF user = NoUsuario
          THEN Reject(op, t, NULL, 404, "nao_encontrado", "lookup")
       ELSE IF user.role = "ADMINISTRADORA" /\ user.administradoraId = NULL
          THEN Reject(op, t, NULL, 400, "administradora_invalida", "validation")
       ELSE IF user.role = "ADMINISTRADORA" /\ condominioNome = ""
          THEN Reject(op, t, NULL, 400, "condominio_obrigatorio", "validation")
       ELSE /\ condominios' =
                 IF creates
                 THEN Insert(condominios, id,
                             [nome |-> condominioNome, cnpj |-> NULL, endereco |-> NULL,
                              administradoraId |-> user.administradoraId])
                 ELSE IF renames
                 THEN [condominios EXCEPT ![user.condominioId].nome = condominioNome]
                 ELSE condominios
            /\ nextId' = IF creates THEN [nextId EXCEPT !.condominio = @ + 1] ELSE nextId
            /\ usuarios' = [usuarios EXCEPT ![t.id].plano = plano,
                                            ![t.id].onboarded = TRUE]
            /\ Respond(op, t, NULL, 200, NULL, "ok", {})
            /\ UNCHANGED <<tokens, unidades, moradores, lancamentos>>

---------------------------------------------------------------------------
\* Unidades.

\* Mutant: the plan limit of Unidades is compared with > instead of >=.
UnidadeLimitReached_OffByOne(dbUser, cid) ==
    /\ dbUser # NoUsuario
    /\ dbUser.plano = "FREEMIUM"
    /\ CountUnidades(cid) > FreemiumMaxUnidades

\* Mutant: the plan limit counts the Unidades of every Condominio.
UnidadeLimitReached_Global(dbUser, cid) ==
    /\ dbUser # NoUsuario
    /\ dbUser.plano = "FREEMIUM"
    /\ Cardinality(DOMAIN unidades) >= FreemiumMaxUnidades

\* POST /api/condominios/:condominioId/unidades: the plan limiter.
UnidadeLimitReached(dbUser, cid) ==
    /\ dbUser # NoUsuario
    /\ dbUser.plano = "FREEMIUM"
    /\ CountUnidades(cid) >= FreemiumMaxUnidades

\* GET /api/condominios/:condominioId/unidades
ListUnidades(t, rawId) ==
    LET op == "GET /api/condominios/:condominioId/unidades"
        cid == Trim(rawId)
    IN
    /\ IF t = Absent \/ cid = ""
          THEN Reject(op, t, cid, 400, "condominio_obrigatorio", "validation")
       ELSE IF cid \notin DOMAIN condominios
          THEN Reject(op, t, cid, 404, "nao_encontrado", "lookup")
       ELSE IF ~canAccessCondominio(t, CondominioOf(cid))
          THEN Reject(op, t, cid, 403, "forbidden", "access")
       ELSE /\ Respond(op, t, cid, 200, NULL, "ok",
                       Newest(UnidadeIdPool,
                              {u \in DOMAIN unidades : unidades[u].condominioId = cid},
                              TakeUnidades))
            /\ UNCHANGED <<userVars, dbVars>>

UnidadeBodies ==
    {[identificador |-> UNDEF, tipo |-> UNDEF],
     [identificador |-> "y", tipo |-> UNDEF],
     [identificador |-> "y", tipo |-> "t"]}

\* POST /api/condominios/:condominioId/unidades
CreateUnidade(t, rawId, body) ==
    LET op == "POST /api/condominios/:condominioId/unidades"
        cid == Trim(rawId)
        identificador == TextOrEmpty(body.identificador)
        id == UnidadeIdPool[nextId.unidade + 1]
    IN
    /\ nextId.unidade + 1 < Len(UnidadeIdPool)
    /\ IF ~isAdminOrOperator(t)
          THEN Reject(op, t, cid, 403, "forbidden", "role")
       ELSE IF cid = ""
          THEN Reject(op, t, cid, 400, "condominio_obrigatorio", "validation")
       ELSE IF identificador = ""
          THEN Reject(op, t, cid, 400, "identificador_obrigatorio", "validation")
       ELSE IF cid \notin DOMAIN condominios
          THEN Reject(op, t, cid, 404, "nao_encontrado", "lookup")
       ELSE IF ~canAccessCondominio(t, CondominioOf(cid))
          THEN Reject(op, t, cid, 403, "forbidden", "access")
       ELSE IF UnidadeLimitReached(FindUsuario(t.id), cid)
          THEN Reject(op, t, cid, 403, "limite_plano", "plan")
       ELSE /\ unidades' = Insert(unidades, id,
                               [identificador |-> identificador,
                                tipo |-> TextOrNull(body.tipo), condominioId |-> cid])
            /\ nextId' = [nextId EXCEPT !.unidade = @ + 1]
            /\ Respond(op, t, cid, 201, NULL, "ok", {id})
            /\ UNCHANGED <<userVars, condominios, moradores, lancamentos>>

UnidadePatchBodies ==
    {[identificador |-> UNDEF, tipo |-> UNDEF],
     [identificador |-> " ", tipo |-> UNDEF],
     [identificador |-> "y", tipo |-> UNDEF],
     [identificador |-> UNDEF, tipo |-> ""]}

UnidadePatch(body) ==
    [f \in {k \in {"identificador", "tipo"} : body[k] # UNDEF} |->
        IF f = "identificador" THEN Trim(body.identificador) ELSE PatchOrNull(body[f])]

\* PATCH /api/unidades/:id
UpdateUnidade(t, rawId, body) ==
    LET op == "PATCH /api/unidades/:id"
        id == Trim(rawId)
        patch == UnidadePatch(body)
    IN
    /\ IF ~isAdminOrOperator(t)
          THEN Reject(op, t, id, 403, "forbidden", "role")
       ELSE IF id = ""
          THEN Reject(op, t, id, 400, "id_obrigatorio", "validation")
       ELSE IF id \notin DOMAIN unidades
          THEN Reject(op, t, id, 404, "nao_encontrado", "lookup")
       ELSE IF ~canAccessCondominio(t, CondominioOf(unidades[id].condominioId))
          THEN Reject(op, t, id, 403, "forbidden", "access")
       ELSE IF "identificador" \in DOMAIN patch /\ patch.identificador = ""
          THEN Reject(op, t, id, 400, "identificador_obrigatorio", "validation")
       ELSE IF DOMAIN patch = {}
          THEN Reject(op, t, id, 400, "nada_para_atualizar", "validation")
       ELSE /\ unidades' = [unidades EXCEPT ![id] = ApplyPatch(@, patch)]
            /\ Respond(op, t, id, 200, NULL, "ok", {id})
            /\ UNCHANGED <<userVars, condominios, moradores, lancamentos, nextId>>

\* Foreign key of Morador on Unidade: ON DELETE RESTRICT.
UnidadeReferenced(id) == \E m \in DOMAIN moradores : moradores[m].unidadeId = id

\* DELETE /api/unidades/:id
DeleteUnidade(t, rawId) ==
    LET op == "DELETE /api/unidades/:id"
        id == Trim(rawId)
    IN
    /\ IF ~isAdminOrOperator(t)
          THEN Reject(op, t, id, 403, "forbidden", "role")
       ELSE IF id = ""
          THEN Reject(op, t, id, 400, "id_obrigatorio", "validation")
       ELSE IF id \notin DOMAIN unidades
          THEN Reject(op, t, id, 404, "nao_encontrado", "lookup")
       ELSE IF ~canAccessCondominio(t, CondominioOf(unidades[id].condominioId))
          THEN Reject(op, t, id, 403, "forbidden", "access")
       ELSE IF UnidadeReferenced(id)
          THEN Reject(op, t, id, 500, "internal_error", "store")
       ELSE /\ unidades' = Remove(unidades, id)
            /\ Respond(op, t, id, 204, NULL, "ok", {})
            /\ UNCHANGED <<userVars, condominios, moradores, lancamentos, nextId>>

---------------------------------------------------------------------------
\* Moradores.

\* The Condominio a Unidade belongs to (include: { condominio: true }).
CondominioOfUnidade(uid) == CondominioOf(unidades[uid].condominioId)

\* GET /api/unidades/:unidadeId/moradores
ListMoradores(t, rawId) ==
    LET op == "GET /api/unidades/:unidadeId/moradores"
        uid == Trim(rawId)
    IN
    /\ IF t = Absent \/ uid = ""
          THEN Reject(op, t, uid, 400, "unidade_obrigatoria", "validation")
       ELSE IF uid \notin DOMAIN unidades
          THEN Reject(op, t, uid, 404, "nao_encontrado", "lookup")
       ELSE IF ~canAccessCondominio(t, CondominioOfUnidade(uid))
          THEN Reject(op, t, uid, 403, "forbidden", "access")
       ELSE /\ Respond(op, t, uid, 200, NULL, "ok",
                       Newest(MoradorIdPool,
                              {m \in DOMAIN moradores : moradores[m].unidadeId = uid},
                              TakeMoradores))
            /\ UNCHANGED <<userVars, dbVars>>

MoradorBodies ==
    {[nome |-> UNDEF, documento |-> UNDEF, contato |-> UNDEF],
     [nome |-> "y", documento |-> "d", contato |-> UNDEF]}

\* POST /api/unidades/:unidadeId/moradores
CreateMorador(t, rawId, body) ==
    LET op == "POST /api/unidades/:unidadeId/moradores"
        uid == Trim(rawId)
        nome == TextOrEmpty(body.nome)
        id == MoradorIdPool[nextId.morador + 1]
    IN
    /\ nextId.morador + 1 < Len(MoradorIdPool)
    /\ IF ~isAdminOrOperator(t)
          THEN Reject(op, t, uid, 403, "forbidden", "role")
       ELSE IF uid = ""
          THEN Reject(op, t, uid, 400, "unidade_obrigatoria", "validation")
       ELSE IF nome = ""
          THEN Reject(op, t, uid, 400, "nome_obrigatorio", "validation")
       ELSE IF uid \notin DOMAIN unidades
          THEN Reject(op, t, uid, 404, "nao_encontrado", "lookup")
       ELSE IF ~canAccessCondominio(t, CondominioOfUnidade(uid))
          THEN Reject(op, t, uid, 403, "forbidden", "access")
       ELSE /\ moradores' = Insert(moradores, id,
                                [nome |-> nome, documento |-> TextOrNull(body.documento),
                                 contato |-> TextOrNull(body.contato), unidadeId |-> uid])
            /\ nextId' = [nextId EXCEPT !.morador = @ + 1]
            /\ Respond(op, t, uid, 201, NULL, "ok", {id})
            /\ UNCHANGED <<userVars, condominios, unidades, lancamentos>>

MoradorPatchBodies ==
    {[nome |-> UNDEF, documento |-> UNDEF, contato |-> UNDEF],
     [nome |-> "", documento |-> UNDEF, contato |-> UNDEF],
     [nome |-> "y", documento |-> UNDEF, contato |-> ""]}

MoradorPatch(body) ==
    [f \in {k \in {"nome", "documento", "contato"} : body[k] # UNDEF} |->
        IF f = "nome" THEN Trim(body.nome) ELSE PatchOrNull(body[f])]

\* PATCH /api/moradores/:id
UpdateMorador(t, rawId, body) ==
    LET op == "PATCH /api/moradores/:id"
        id == Trim(rawId)
        patch == MoradorPatch(body)
    IN
    /\ IF ~isAdminOrOperator(t)
          THEN Reject(op, t, id, 403, "forbidden", "role")
       ELSE IF id = ""
          THEN Reject(op, t, id, 400, "id_obrigatorio", "validation")
       ELSE IF id \notin DOMAIN moradores
          THEN Reject(op, t, id, 404, "nao_encontrado", "lookup")
       ELSE IF ~canAccessCondominio(t, CondominioOfUnidade(moradores[id].unidadeId))
          THEN Reject(op, t, id, 403, "forbidden", "access")
       ELSE IF "nome" \in DOMAIN patch /\ patch.nome = ""
          THEN Reject(op, t, id, 400, "nome_obrigatorio", "validation")
       ELSE IF DOMAIN patch = {}
          THEN Reject(op, t, id, 400, "nada_para_atualizar", "validation")
       ELSE /\ moradores' = [moradores EXCEPT ![id] = ApplyPatch(@, patch)]
            /\ Respond(op, t, id, 200, NULL, "ok", {id})
            /\ UNCHANGED <<userVars, condominios, unidades, lancamentos, nextId>>

\* DELETE /api/moradores/:id
DeleteMorador(t, rawId) ==
    LET op == "DELETE /api/moradores/:id"
        id == Trim(rawId)
    IN
    /\ IF ~isAdminOrOperator(t)
          THEN Reject(op, t, id, 403, "forbidden", "role")
       ELSE IF id = ""
          THEN Reject(op, t, id, 400, "id_obrigatorio", "validation")
       ELSE IF id \notin DOMAIN moradores
          THEN Reject(op, t, id, 404, "nao_encontrado", "lookup")
       ELSE IF ~canAccessCondominio(t, CondominioOfUnidade(moradores[id].unidadeId))
          THEN Reject(op, t, id, 403, "forbidden", "access")
       ELSE /\ moradores' = Remove(moradores, id)
            /\ Respond(op, t, id, 204, NULL, "ok", {})
            /\ UNCHANGED <<userVars, condominios, unidades, lancamentos, nextId>>

---------------------------------------------------------------------------
\* Lancamentos.

Digits == {"0", "1", "2", "3", "4", "5", "6", "7", "8", "9"}

\* A text as the sequence of its characters; NoText is a field not sent.
NoText == <<"undefined">>

\* raw.replace(",", "."): the first comma only.
ReplaceComma(raw) ==
    IF \E i \in 1..Len(raw) : raw[i] = ","
    THEN LET k == CHOOSE i \in 1..Len(raw) :
                      raw[i] = "," /\ \A j \in 1..(i - 1) : raw[j] # ","
         IN  [i \in 1..Len(raw) |-> IF i = k THEN "." ELSE raw[i]]
    ELSE raw

\* Number(text) is not NaN, for texts of digits, points, commas and letters.
IsNumber(text) ==
    /\ \A i \in 1..Len(text) : text[i] \in Digits \cup {"."}
    /\ Cardinality({i \in 1..Len(text) : text[i] = "."}) <= 1
    /\ \E i \in 1..Len(text) : text[i] \in Digits

parseDecimalInput(value) ==
    IF value = NoText \/ value = <<>> THEN <<>>
    ELSE IF ~IsNumber(ReplaceComma(value)) THEN <<>>
    ELSE ReplaceComma(value)

\* Instants, in order; each is the midnight that a date-only text names.
DayPool == <<"2026-01-05", "2026-01-06", "2026-01-07">>

DayIndex(d) == CHOOSE i \in 1..Len(DayPool) : DayPool[i] = d

\* raw.length === 10
IsDateOnly(raw) == \E i \in 1..Len(DayPool) : DayPool[i] = raw

\* The instant a text names, NULL when it names none.
parseDateInput(value) ==
    IF value \in {UNDEF, NULL, ""} THEN NULL
    ELSE IF IsDateOnly(Trim(value)) THEN Trim(value)
    ELSE IF Trim(value) = "2026-01-06T00:00:00" THEN "2026-01-06"
    ELSE NULL

LancamentoQueries ==
    {[inicio |-> UNDEF, fim |-> UNDEF],
     [inicio |-> "ontem", fim |-> UNDEF],
     [inicio |-> UNDEF, fim |-> "ontem"],
     [inicio |-> "2026-01-06", fim |-> UNDEF],
     [inicio |-> UNDEF, fim |-> "2026-01-05"],
     [inicio |-> UNDEF, fim |-> "2026-01-06T00:00:00"]}

\* where: { data: { gte: inicio, lt: end } }
InDateFilter(data, query) ==
    LET inicio == parseDateInput(query.inicio)
        fim == parseDateInput(query.fim)
    IN  /\ inicio # NULL => DayIndex(data) >= DayIndex(inicio)
        /\ fim # NULL =>
              IF IsDateOnly(Trim(query.fim))
              THEN DayIndex(data) < DayIndex(fim) + 1
              ELSE DayIndex(data) < DayIndex(fim)

\* GET /api/condominios/:condominioId/lancamentos
ListLancamentos(t, rawId, query) ==
    LET op == "GET /api/condominios/:condominioId/lancamentos"
        cid == Trim(rawId)
        inicioRaw == TextOrEmpty(query.inicio)
        fimRaw == TextOrEmpty(query.fim)
    IN
    /\ IF t = Absent \/ cid = ""
          THEN Reject(op, t, cid, 400, "condominio_obrigatorio", "validation")
       ELSE IF inicioRaw # "" /\ parseDateInput(inicioRaw) = NULL
          THEN Reject(op, t, cid, 400, "inicio_invalido", "validation")
       ELSE IF fimRaw # "" /\ parseDateInput(fimRaw) = NULL
          THEN Reject(op, t, cid, 400, "fim_invalido", "validation")
       ELSE IF cid \notin DOMAIN condominios
          THEN Reject(op, t, cid, 404, "nao_encontrado", "lookup")
       ELSE IF ~canAccessCondominio(t, CondominioOf(cid))
          THEN Reject(op, t, cid, 403, "forbidden", "access")
       ELSE /\ Respond(op, t, cid, 200, NULL, "ok",
                       Newest(LancamentoIdPool,
                              {l \in DOMAIN lancamentos :
                                  /\ lancamentos[l].condominioId = cid
                                  /\ InDateFilter(lancamentos[l].data, query)},
                              TakeLancamentos))
            /\ UNCHANGED <<userVars, dbVars>>

LancamentoBodies ==
    {[tipo |-> "receita", valor |-> <<"1", "0", ",", "5">>, data |-> "2026-01-06",
      categoria |-> UNDEF, descricao |-> "d"],
     [tipo |-> "OUTRO", valor |-> <<"1", "0", ",", "5">>, data |-> "2026-01-06",
      categoria |-> UNDEF, descricao |-> UNDEF],
     [tipo |-> "DESPESA", valor |-> <<"1", ",", "2", ",", "3">>, data |-> "2026-01-06",
      categoria |-> UNDEF, descricao |-> UNDEF],
     [tipo |-> "DESPESA", valor |-> <<"7">>, data |-> "ontem",
      categoria |-> UNDEF, descricao |-> UNDEF]}

TipoValido(tipo) == tipo = "RECEITA" \/ tipo = "DESPESA"

\* POST /api/condominios/:condominioId/lancamentos
CreateLancamento(t, rawId, body) ==
    LET op == "POST /api/condominios/:condominioId/lancamentos"
        cid == Trim(rawId)
        tipo == ToUpperCase(TextOrEmpty(body.tipo))
        valor == parseDecimalInput(body.valor)
        data == parseDateInput(body.data)
        id == LancamentoIdPool[nextId.lancamento + 1]
    IN
    /\ nextId.lancamento + 1 < Len(LancamentoIdPool)
    /\ IF ~isAdminOrOperator(t)
          THEN Reject(op, t, cid, 403, "forbidden", "role")
       ELSE IF cid = ""
          THEN Reject(op, t, cid, 400, "condominio_obrigatorio", "validation")
       ELSE IF ~TipoValido(tipo)
          THEN Reject(op, t, cid, 400, "tipo_invalido", "validation")
       ELSE IF valor = <<>>
          THEN Reject(op, t, cid, 400, "valor_invalido", "validation")
       ELSE IF data = NULL
          THEN Reject(op, t, cid, 400, "data_invalida", "validation")
       ELSE IF cid \notin DOMAIN condominios
          THEN Reject(op, t, cid, 404, "nao_encontrado", "lookup")
       ELSE IF ~canAccessCondominio(t, CondominioOf(cid))
          THEN Reject(op, t, cid, 403, "forbidden", "access")
       ELSE /\ lancamentos' = Insert(lancamentos, id,
                                  [tipo |-> tipo, valor |-> valor, data |-> data,
                                   categoria |-> TextOrNull(body.categoria),
                                   descricao |-> TextOrNull(body.descricao),
                                   condominioId |-> cid])
            /\ nextId' = [nextId EXCEPT !.lancamento = @ + 1]
            /\ Respond(op, t, cid, 201, NULL, "ok", {id})
            /\ UNCHANGED <<userVars, condominios, unidades, moradores>>

LancamentoPatchBodies ==
    {[tipo |-> UNDEF, valor |-> NoText, data |-> UNDEF, categoria |-> UNDEF,
      descricao |-> UNDEF],
     [tipo |-> "receita", valor |-> NoText, data |-> UNDEF, categoria |-> "",
      descricao |-> UNDEF],
     [tipo |-> "OUTRO", valor |-> NoText, data |-> UNDEF, categoria |-> UNDEF,
      descricao |-> UNDEF],
     [tipo |-> UNDEF, valor |-> <<"a">>, data |-> UNDEF, categoria |-> UNDEF,
      descricao |-> UNDEF],
     [tipo |-> UNDEF, valor |-> <<"8", ",", "0">>, data |-> "ontem", categoria |-> UNDEF,
      descricao |-> UNDEF]}

LancamentoSent(body) ==
    {k \in {"tipo", "data", "categoria", "descricao"} : body[k] # UNDEF}
        \cup (IF body.valor # NoText THEN {"valor"} ELSE {})

LancamentoPatch(body) ==
    [f \in LancamentoSent(body) |->
        CASE f = "tipo" -> ToUpperCase(Trim(body.tipo))
          [] f = "valor" -> parseDecimalInput(body.valor)
          [] f = "data" -> parseDateInput(body.data)
          [] OTHER -> PatchOrNull(body[f])]

\* PATCH /api/lancamentos/:id
UpdateLancamento(t, rawId, body) ==
    LET op == "PATCH /api/lancamentos/:id"
        id == Trim(rawId)
        patch == LancamentoPatch(body)
    IN
    /\ IF ~isAdminOrOperator(t)
          THEN Reject(op, t, id, 403, "forbidden", "role")
       ELSE IF id = ""
          THEN Reject(op, t, id, 400, "id_obrigatorio", "validation")
       ELSE IF id \notin DOMAIN lancamentos
          THEN Reject(op, t, id, 404, "nao_encontrado", "lookup")
       ELSE IF ~canAccessCondominio(t, CondominioOf(lancamentos[id].condominioId))
          THEN Reject(op, t, id, 403, "forbidden", "access")
       ELSE IF "tipo" \in DOMAIN patch /\ ~TipoValido(patch.tipo)
          THEN Reject(op, t, id, 400, "tipo_invalido", "validation")
       ELSE IF "valor" \in DOMAIN patch /\ patch.valor = <<>>
          THEN Reject(op, t, id, 400, "valor_invalido", "validation")
       ELSE IF "data" \in DOMAIN patch /\ patch.data = NULL
          THEN Reject(op, t, id, 400, "data_invalida", "validation")
       ELSE IF DOMAIN patch = {}
          THEN Reject(op, t, id, 400, "nada_para_atualizar", "validation")
       ELSE /\ lancamentos' = [lancamentos EXCEPT ![id] = ApplyPatch(@, patch)]
            /\ Respond(op, t, id, 200, NULL, "ok", {id})
            /\ UNCHANGED <<userVars, condominios, unidades, moradores, nextId>>

\* DELETE /api/lancamentos/:id
DeleteLancamento(t, rawId) ==
    LET op == "DELETE /api/lancamentos/:id"
        id == Trim(rawId)
    IN
    /\ IF ~isAdminOrOperator(t)
          THEN Reject(op, t, id, 403, "forbidden", "role")
       ELSE IF id = ""
          THEN Reject(op, t, id, 400, "id_obrigatorio", "validation")
       ELSE IF id \notin DOMAIN lancamentos
          THEN Reject(op, t, id, 404, "nao_encontrado", "lookup")
       ELSE IF ~canAccessCondominio(t, CondominioOf(lancamentos[id].condominioId))
          THEN Reject(op, t, id, 403, "forbidden", "access")
       ELSE /\ lancamentos' = Remove(lancamentos, id)
            /\ Respond(op, t, id, 204, NULL, "ok", {})
            /\ UNCHANGED <<userVars, condominios, unidades, moradores, nextId>>

---------------------------------------------------------------------------
\* Registration, email verification and password reset.

\* A handler of /auth answers without touching the store.
AuthReject(op, target, status, error, gate) ==
    /\ Answer(op, Absent, target, status, error, gate, {})
    /\ UNCHANGED <<userVars, dbVars, authVars>>

\* prisma.usuario.findUnique({ where: { email } })
FindByEmail(table, email) == {u \in DOMAIN table : table[u].email = email}

\* The raw tokens a client can send: those issued, none, and one never issued.
TokenInputs == {TokenPool[i] : i \in 1..authIds.token} \cup {UNDEF, "zz"}

EmailInputs == {UNDEF, "e1", "E1", "e7"}

RegisterBodies ==
    {[nome |-> "x", email |-> "e7", senha |-> SenhaNova, role |-> "ADMINISTRADORA",
      administradoraNome |-> "adm", condominioNome |-> UNDEF],
     [nome |-> "x", email |-> "e8", senha |-> SenhaNova, role |-> "SINDICO",
      administradoraNome |-> UNDEF, condominioNome |-> "n2"],
     [nome |-> "x", email |-> "E1", senha |-> SenhaNova, role |-> "SINDICO",
      administradoraNome |-> UNDEF, condominioNome |-> "n2"],
     [nome |-> UNDEF, email |-> "e7", senha |-> SenhaNova, role |-> "SINDICO",
      administradoraNome |-> UNDEF, condominioNome |-> "n2"],
     [nome |-> "x", email |-> "e7", senha |-> SenhaCurta, role |-> "SINDICO",
      administradoraNome |-> UNDEF, condominioNome |-> "n2"],
     [nome |-> "x", email |-> "e7", senha |-> SenhaNova, role |-> "OPERADOR",
      administradoraNome |-> "adm", condominioNome |-> "n2"],
     [nome |-> "x", email |-> "e7", senha |-> SenhaNova, role |-> "ADMINISTRADORA",
      administradoraNome |-> " ", condominioNome |-> "n2"],
     [nome |-> "x", email |-> "e7", senha |-> SenhaNova, role |-> "SINDICO",
      administradoraNome |-> "adm", condominioNome |-> UNDEF]}

\* The token generated by this request, and the record history keeps of it.
NewToken == TokenPool[authIds.token + 1]

Issue(kind, user) ==
    /\ tokenLog' = Insert(tokenLog, NewToken,
                          [kind |-> kind, user |-> user, at |-> now, used |-> FALSE])
    /\ authIds' = [authIds EXCEPT !.token = @ + 1]

\* POST /auth/register
Register(body) ==
    LET op == "POST /auth/register"
        nome == TextOrEmpty(body.nome)
        email == ToLowerCase(TextOrEmpty(body.email))
        senha == body.senha
        role == ToUpperCase(TextOrEmpty(body.role))
        administradoraNome == TextOrEmpty(body.administradoraNome)
        condominioNome == TextOrEmpty(body.condominioNome)
        uid == UsuarioIdPool[authIds.usuario + 1]
        adm == AdministradoraIdPool[authIds.administradora + 1]
        cid == CondominioIdPool[nextId.condominio + 1]
        conta == ContaRow(email, hashPassword(senha), FALSE, hashToken(NewToken),
                          now + EMAIL_VERIFY_TTL_MS)
    IN  IF nome = "" \/ email = "" \/ senha = <<>>
        THEN AuthReject(op, email, 400, "dados_obrigatorios", "validation")
        ELSE IF Len(senha) < MIN_PASSWORD_LENGTH
        THEN AuthReject(op, email, 400, "senha_fraca", "validation")
        ELSE IF role # "ADMINISTRADORA" /\ role # "SINDICO"
        THEN AuthReject(op, email, 400, "role_invalida", "validation")
        ELSE IF role = "ADMINISTRADORA" /\ administradoraNome = ""
        THEN AuthReject(op, email, 400, "administradora_obrigatoria", "validation")
        ELSE IF role = "SINDICO" /\ condominioNome = ""
        THEN AuthReject(op, email, 400, "condominio_obrigatorio", "validation")
        ELSE IF FindByEmail(contas, email) # {}
        THEN AuthReject(op, email, 409, "email_em_uso", "conflict")
        ELSE /\ authIds.usuario < Len(UsuarioIdPool)
             /\ authIds.token < Len(TokenPool)
             /\ authIds.administradora < Len(AdministradoraIdPool)
             /\ nextId.condominio + 1 < Len(CondominioIdPool)
             /\ contas' = Insert(contas, uid, conta)
             /\ tokenLog' = Insert(tokenLog, NewToken,
                               [kind |-> "verify", user |-> uid, at |-> now, used |-> FALSE])
             /\ IF role = "ADMINISTRADORA"
                THEN /\ usuarios' = Insert(usuarios, uid,
                            [UsuarioRow("ADMINISTRADORA", adm, NULL, "FREEMIUM")
                                EXCEPT !.onboarded = FALSE])
                     /\ authIds' = [authIds EXCEPT !.usuario = @ + 1, !.token = @ + 1,
                                                   !.administradora = @ + 1]
                     /\ UNCHANGED dbVars
                ELSE /\ condominios' = Insert(condominios, cid,
                            [CondominioRow(NULL) EXCEPT !.nome = condominioNome])
                     /\ nextId' = [nextId EXCEPT !.condominio = @ + 1]
                     /\ usuarios' = Insert(usuarios, uid,
                            [UsuarioRow("SINDICO", NULL, cid, "FREEMIUM")
                                EXCEPT !.onboarded = FALSE])
                     /\ authIds' = [authIds EXCEPT !.usuario = @ + 1, !.token = @ + 1]
                     /\ UNCHANGED <<unidades, moradores, lancamentos>>
             /\ Answer(op, Absent, email, 201, NULL, "ok", {NewToken})
             /\ UNCHANGED <<tokens, now, nTicks, loginAttempts, states, inflight, attemptLog>>

\* Mutant: the token is not cleared when it is redeemed.
VerifiedConta_KeepToken(conta) == [conta EXCEPT !.emailVerificado = TRUE]

\* POST /auth/verify-email: the data of the update.
VerifiedConta(conta) ==
    [conta EXCEPT !.emailVerificado = TRUE,
                  !.emailVerificationToken = NoHash,
                  !.emailVerificationExpires = NoDate]

\* Mutant: the token is still accepted at the instant it expires.
VerifyCandidates_AtExpiry(token) ==
    {u \in DOMAIN contas :
        /\ contas[u].emailVerificationToken = hashToken(token)
        /\ contas[u].emailVerificationExpires >= now}

\* POST /auth/verify-email: the rows findFirst can return.
VerifyCandidates(token) ==
    {u \in DOMAIN contas :
        /\ contas[u].emailVerificationToken = hashToken(token)
        /\ contas[u].emailVerificationExpires > now}

\* History: the token has been redeemed.
MarkUsed(token) ==
    IF token \in DOMAIN tokenLog
    THEN [tokenLog EXCEPT ![token].used = TRUE]
    ELSE tokenLog

\* POST /auth/verify-email
VerifyEmail(tokenIn) ==
    LET op == "POST /auth/verify-email"
        token == TextOrEmpty(tokenIn)
    IN  IF token = ""
        THEN AuthReject(op, token, 400, "token_invalido", "validation")
        ELSE IF VerifyCandidates(token) = {}
        THEN AuthReject(op, token, 400, "token_invalido", "lookup")
        ELSE \E uid \in VerifyCandidates(token) :
                /\ contas' = [contas EXCEPT ![uid] = VerifiedConta(@)]
                /\ tokens' = tokens \cup {TokenOf(uid, usuarios[uid])}
                /\ tokenLog' = MarkUsed(token)
                /\ Answer(op, Absent, token, 200, NULL, "ok", {uid})
                /\ UNCHANGED <<usuarios, dbVars, now, nTicks, loginAttempts, authIds,
                               states, inflight, attemptLog>>

\* POST /auth/resend-verification
ResendVerification(emailIn) ==
    LET op == "POST /auth/resend-verification"
        email == ToLowerCase(TextOrEmpty(emailIn))
        found == FindByEmail(contas, email)
    IN  IF email = ""
        THEN AuthReject(op, email, 400, "email_obrigatorio", "validation")
        ELSE IF \A u \in found : contas[u].emailVerificado \/ contas[u].authProvider # "LOCAL"
        THEN AuthReject(op, email, 200, NULL, "ok")
        ELSE \E uid \in found :
                /\ authIds.token < Len(TokenPool)
                /\ contas' = [contas EXCEPT
                        ![uid].emailVerificationToken = hashToken(NewToken),
                        ![uid].emailVerificationExpires = now + EMAIL_VERIFY_TTL_MS]
                /\ Issue("verify", uid)
                /\ Answer(op, Absent, email, 200, NULL, "ok", {NewToken})
                /\ UNCHANGED <<userVars, dbVars, now, nTicks, loginAttempts, states, inflight,
                               attemptLog>>

\* Mutant: issuing a reset token drops the pending verification token.
ResetIssued_ClearsVerification(conta, token) ==
    [conta EXCEPT !.passwordResetToken = hashToken(token),
                  !.passwordResetExpires = now + RESET_TTL_MS,
                  !.emailVerificationToken = NoHash,
                  !.emailVerificationExpires = NoDate]

\* POST /auth/request-reset: the data of the update.
ResetIssued(conta, token) ==
    [conta EXCEPT !.passwordResetToken = hashToken(token),
                  !.passwordResetExpires = now + RESET_TTL_MS]

\* POST /auth/request-reset
RequestReset(emailIn) ==
    LET op == "POST /auth/request-reset"
        email == ToLowerCase(TextOrEmpty(emailIn))
        found == FindByEmail(contas, email)
    IN  IF email = ""
        THEN AuthReject(op, email, 400, "email_obrigatorio", "validation")
        ELSE IF \A u \in found : contas[u].authProvider # "LOCAL"
        THEN AuthReject(op, email, 200, NULL, "ok")
        ELSE \E uid \in found :
                /\ authIds.token < Len(TokenPool)
                /\ contas' = [contas EXCEPT ![uid] = ResetIssued(@, NewToken)]
                /\ Issue("reset", uid)
                /\ Answer(op, Absent, email, 200, NULL, "ok", {NewToken})
                /\ UNCHANGED <<userVars, dbVars, now, nTicks, loginAttempts, states, inflight,
                               attemptLog>>

\* Mutant: the token is still accepted at the instant it expires.
ResetCandidates_AtExpiry(token) ==
    {u \in DOMAIN contas :
        /\ contas[u].passwordResetToken = hashToken(token)
        /\ contas[u].passwordResetExpires >= now}

\* POST /auth/reset-password: the rows findFirst can return.
ResetCandidates(token) ==
    {u \in DOMAIN contas :
        /\ contas[u].passwordResetToken = hashToken(token)
        /\ contas[u].passwordResetExpires > now}

SenhaInputs == {<<>>, SenhaCurta, SenhaNova}

\* Mutant: a password reset sends the account back to unverified.
PasswordReset_Unverify(conta, senha) ==
    [conta EXCEPT !.senhaHash = hashPassword(senha),
                  !.passwordResetToken = NoHash,
                  !.passwordResetExpires = NoDate,
                  !.emailVerificado = FALSE]

\* POST /auth/reset-password: the data of the update.
PasswordReset(conta, senha) ==
    [conta EXCEPT !.senhaHash = hashPassword(senha),
                  !.passwordResetToken = NoHash,
                  !.passwordResetExpires = NoDate]

\* POST /auth/reset-password
ResetPassword(tokenIn, senha) ==
    LET op == "POST /auth/reset-password"
        token == TextOrEmpty(tokenIn)
    IN  IF token = "" \/ senha = <<>>
        THEN AuthReject(op, token, 400, "dados_obrigatorios", "validation")
        ELSE IF Len(senha) < MIN_PASSWORD_LENGTH
        THEN AuthReject(op, token, 400, "senha_fraca", "validation")
        ELSE IF ResetCandidates(token) = {}
        THEN AuthReject(op, token, 400, "token_invalido", "lookup")
        ELSE \E uid \in ResetCandidates(token) :
                /\ contas' = [contas EXCEPT ![uid] = PasswordReset(@, senha)]
                /\ tokenLog' = MarkUsed(token)
                /\ Answer(op, Absent, token, 200, NULL, "ok", {uid})
                /\ UNCHANGED <<userVars, dbVars, now, nTicks, loginAttempts, authIds,
                               states, inflight, attemptLog>>

\* Time passes between two requests.
Advance(d) ==
    /\ now' = now + d
    /\ nTicks' = nTicks + 1
    /\ UNCHANGED <<userVars, dbVars, reqVars, guardVars, contas, loginAttempts, authIds,
                   tokenLog, states, inflight, attemptLog>>

---------------------------------------------------------------------------
\* Login and its rate limiter.

\* `${ip}:${email}`
RateKey(ip, email) == <<ip, email>>

\* isRateLimited: the key has an entry whose window has not elapsed.
RateWindowOpen(attempts, t, key) ==
    /\ key \in DOMAIN attempts
    /\ ~(t - attempts[key].firstAt > LoginWindowMs)

\* Mutant: every attempt restarts the window of its key.
RateCounted_Sliding(attempts, t, key) ==
    IF RateWindowOpen(attempts, t, key)
    THEN [attempts EXCEPT ![key].count = @ + 1, ![key].firstAt = t]
    ELSE Insert(attempts, key, [count |-> 1, firstAt |-> t])

\* isRateLimited: the Map after the call.
RateCounted(attempts, t, key) ==
    IF RateWindowOpen(attempts, t, key)
    THEN [attempts EXCEPT ![key].count = @ + 1]
    ELSE Insert(attempts, key, [count |-> 1, firstAt |-> t])

\* Mutant: the count is compared with >= instead of >.
isRateLimited_OffByOne(attempts, t, key) ==
    /\ RateWindowOpen(attempts, t, key)
    /\ attempts[key].count + 1 >= LoginLimit

\* isRateLimited: the value returned.
isRateLimited(attempts, t, key) ==
    /\ RateWindowOpen(attempts, t, key)
    /\ attempts[key].count + 1 > LoginLimit

LoginResult(status, error, gate, user) ==
    [status |-> status, error |-> error, gate |-> gate, user |-> user]

\* Mutant: the user is looked up before the rate limiter is asked.
LoginOutcome_LookupFirst(attempts, t, ip, emailIn, senha, table) ==
    LET email == ToLowerCase(TextOrEmpty(emailIn))
        found == FindByEmail(table, email)
    IN  IF email = "" \/ senha = <<>>
        THEN LoginResult(400, "credenciais_invalidas", "validation", NULL)
        ELSE IF found = {}
        THEN LoginResult(401, "credenciais_invalidas", "lookup", NULL)
        ELSE IF isRateLimited(attempts, t, RateKey(ip, email))
        THEN LoginResult(429, "muitas_tentativas", "rate", NULL)
        ELSE LET uid == CHOOSE u \in found : TRUE
             IN  IF table[uid].authProvider = "LOCAL" /\ ~table[uid].emailVerificado
                 THEN LoginResult(403, "email_nao_verificado", "verification", NULL)
                 ELSE IF ~verifyPassword(senha, table[uid].senhaHash)
                 THEN LoginResult(401, "credenciais_invalidas", "password", NULL)
                 ELSE LoginResult(200, NULL, "ok", uid)

\* Mutant: the password is checked before the verification of the email.
LoginOutcome_PasswordFirst(attempts, t, ip, emailIn, senha, table) ==
    LET email == ToLowerCase(TextOrEmpty(emailIn))
        found == FindByEmail(table, email)
    IN  IF email = "" \/ senha = <<>>
        THEN LoginResult(400, "credenciais_invalidas", "validation", NULL)
        ELSE IF isRateLimited(attempts, t, RateKey(ip, email))
        THEN LoginResult(429, "muitas_tentativas", "rate", NULL)
        ELSE IF found = {}
        THEN LoginResult(401, "credenciais_invalidas", "lookup", NULL)
        ELSE LET uid == CHOOSE u \in found : TRUE
             IN  IF ~verifyPassword(senha, table[uid].senhaHash)
                 THEN LoginResult(401, "credenciais_invalidas", "password", NULL)
                 ELSE IF table[uid].authProvider = "LOCAL" /\ ~table[uid].emailVerificado
                 THEN LoginResult(403, "email_nao_verificado", "verification", NULL)
                 ELSE LoginResult(200, NULL, "ok", uid)

\* POST /auth/login: the response, from the limiter's Map, the clock, the
\* request and the table of users.
LoginOutcome(attempts, t, ip, emailIn, senha, table) ==
    LET email == ToLowerCase(TextOrEmpty(emailIn))
        found == FindByEmail(table, email)
    IN  IF email = "" \/ senha = <<>>
        THEN LoginResult(400, "credenciais_invalidas", "validation", NULL)
        ELSE IF isRateLimited(attempts, t, RateKey(ip, email))
        THEN LoginResult(429, "muitas_tentativas", "rate", NULL)
        ELSE IF found = {}
        THEN LoginResult(401, "credenciais_invalidas", "lookup", NULL)
        ELSE LET uid == CHOOSE u \in found : TRUE
             IN  IF table[uid].authProvider = "LOCAL" /\ ~table[uid].emailVerificado
                 THEN LoginResult(403, "email_nao_verificado", "verification", NULL)
                 ELSE IF ~verifyPassword(senha, table[uid].senhaHash)
                 THEN LoginResult(401, "credenciais_invalidas", "password", NULL)
                 ELSE LoginResult(200, NULL, "ok", uid)

\* History: which attempt of its window a well-formed attempt under the key
\* is, the window starting at the first attempt, at the first one after a
\* successful login, or at the first one after the window has elapsed.
AttemptNumber(key) ==
    IF key \in DOMAIN attemptLog /\ now - attemptLog[key].start <= LoginWindowMs
    THEN attemptLog[key].n + 1
    ELSE 1

Logged(key, succeeded) ==
    IF succeeded THEN Remove(attemptLog, key)
    ELSE Insert(attemptLog, key,
                [n |-> AttemptNumber(key),
                 start |-> IF AttemptNumber(key) = 1 THEN now ELSE attemptLog[key].start])

\* POST /auth/login
Login(ip, emailIn, senha) ==
    LET op == "POST /auth/login"
        key == RateKey(ip, ToLowerCase(TextOrEmpty(emailIn)))
        out == LoginOutcome(loginAttempts, now, ip, emailIn, senha, contas)
        counted == RateCounted(loginAttempts, now, key)
    IN  /\ loginAttempts' = CASE out.gate = "validation" -> loginAttempts
                              [] out.status = 200 -> Remove(counted, key)
                              [] OTHER -> counted
        /\ attemptLog' = IF out.gate = "validation" THEN attemptLog
                         ELSE Logged(key, out.status = 200)
        /\ tokens' = IF out.status = 200
                     THEN tokens \cup {TokenOf(out.user, usuarios[out.user])}
                     ELSE tokens
        /\ Answer(op, Absent, key, out.status, out.error, out.gate,
                  IF out.status = 200 THEN {out.user} ELSE {})
        /\ UNCHANGED <<usuarios, dbVars, contas, now, nTicks, authIds, tokenLog, states, inflight>>

---------------------------------------------------------------------------
\* Sign-in with Google and the linking of a Google identity. The client id,
\* secret and redirect URI are configured, and Google answers the exchange of
\* the code and the userinfo request. A callback awaits the store between its
\* lookups and its write, so other requests are handled in between.

\* The payload of a callback without a state, or with one verifyState rejects.
NoState == [mode |-> NULL, userId |-> NULL]

\* The users that start a link.
GoogleActors == {"u1", "u2"}

\* What the userinfo endpoint answers: the subject and the email; a new
\* identity, the same subject under the email of a provisioned user, another
\* subject with the email of a provisioned user, one without subject, one
\* without email.
GoogleInfos ==
    {[sub |-> "g1", email |-> "e7"],
     [sub |-> "g1", email |-> "E1"],
     [sub |-> "g2", email |-> "e2"],
     [sub |-> UNDEF, email |-> "E1"],
     [sub |-> "g2", email |-> UNDEF]}

CodeInputs == {UNDEF, "code"}

\* GET /auth/google
GoogleStart ==
    /\ states' = states \cup {[mode |-> "login", userId |-> NULL]}
    /\ Answer("GET /auth/google", Absent, NULL, 302, NULL, "ok", {})
    /\ UNCHANGED <<userVars, dbVars, contas, now, nTicks, loginAttempts, authIds,
                   tokenLog, inflight, attemptLog>>

\* POST /auth/google/link, behind requireAuth
GoogleLink(t) ==
    /\ states' = states \cup {[mode |-> "link", userId |-> t.id]}
    /\ Answer("POST /auth/google/link", t, NULL, 200, NULL, "ok", {})
    /\ UNCHANGED <<userVars, dbVars, contas, now, nTicks, loginAttempts, authIds,
                   tokenLog, inflight, attemptLog>>

\* The user a link was started by, as the callback knows it.
StateActor(state) ==
    IF state.mode = "link"
    THEN [id |-> state.userId, role |-> NULL, administradoraId |-> NULL,
          condominioId |-> NULL]
    ELSE Absent

\* The callback ends with an error, the store untouched.
GoogleReject(state, target, status, error, gate) ==
    /\ Answer("GET /auth/google/callback", StateActor(state), target, status, error,
              gate, {})
    /\ UNCHANGED <<userVars, dbVars, contas, now, nTicks, loginAttempts, authIds,
                   tokenLog, states, attemptLog>>

\* findUnique({ where: { googleId } }), then findUnique({ where: { email } })
FindGoogleUser(googleId, email) ==
    LET bySub == IF googleId = "" THEN {}
                 ELSE {u \in DOMAIN contas : contas[u].googleId = googleId}
    IN  IF bySub # {} THEN bySub ELSE FindByEmail(contas, email)

\* googleId || row.googleId
GoogleIdOr(googleId, old) == IF googleId = "" THEN old ELSE googleId

\* Mutant: the unique index on googleId is missing.
GoogleIdTaken_NoIndex(uid, googleId) == FALSE

\* Usuario_googleId_key: the write would store a googleId another row holds.
GoogleIdTaken(uid, googleId) ==
    /\ googleId # NULL
    /\ \E u \in DOMAIN contas \ {uid} : contas[u].googleId = googleId

\* Mutant: a link is refused only when the Google email belongs to another
\* account, not when the subject does.
LinkedToOther_EmailOnly(linkUser, googleId, email) ==
    \E u \in FindByEmail(contas, email) : u # linkUser

\* Link mode: `user && user.id !== linkUser.id`
LinkedToOther(linkUser, googleId, email) ==
    \E u \in FindGoogleUser(googleId, email) : u # linkUser

\* A callback that has done its lookups and awaits its write: the row it
\* found, and the googleId that row held when it was read.
Pending(state, googleId, email, user) ==
    [state |-> state, googleId |-> googleId, email |-> email, user |-> user,
     old |-> IF user = NULL THEN NULL ELSE contas[user].googleId]

\* GET /auth/google/callback, up to the lookups: the errors they decide, or
\* the write that follows.
GoogleCallback(codeIn, state, info) ==
    LET code == TextOrEmpty(codeIn)
        email == ToLowerCase(TextOrEmpty(info.email))
        googleId == TextOrEmpty(info.sub)
        found == FindGoogleUser(googleId, email)
        proceed(user) ==
            /\ inflight' = inflight \cup {Pending(state, googleId, email, user)}
            /\ UNCHANGED <<userVars, dbVars, reqVars, guardVars, contas, now, nTicks,
                           loginAttempts, authIds, tokenLog, states, attemptLog>>
    IN  IF code = ""
        THEN GoogleReject(state, googleId, 400, "codigo_invalido", "validation")
                /\ UNCHANGED inflight
        ELSE IF email = ""
        THEN GoogleReject(state, googleId, 302, "google_sem_email", "validation")
                /\ UNCHANGED inflight
        ELSE IF state.mode = "link" /\ state.userId # NULL
        THEN IF state.userId \notin DOMAIN contas
             THEN GoogleReject(state, googleId, 302, "google_link_user_not_found", "lookup")
                     /\ UNCHANGED inflight
             ELSE IF LinkedToOther(state.userId, googleId, email)
             THEN GoogleReject(state, googleId, 302, "google_linked_to_other", "access")
                     /\ UNCHANGED inflight
             ELSE proceed(state.userId)
        ELSE IF found = {}
        THEN proceed(NULL)
        ELSE \E user \in found : proceed(user)

\* GET /auth/google/callback, the write: the row of the link is updated, or
\* the row found is, or an Administradora and its user are created.
GoogleWrite(p) ==
    LET op == "GET /auth/google/callback"
        uid == UsuarioIdPool[authIds.usuario + 1]
        adm == AdministradoraIdPool[authIds.administradora + 1]
        failed == /\ Answer(op, StateActor(p.state), p.googleId, 302,
                            "google_callback", "store", {})
                  /\ inflight' = inflight \ {p}
                  /\ UNCHANGED <<userVars, dbVars, contas, now, nTicks, loginAttempts,
                                 tokenLog, states, attemptLog>>
    IN  IF p.user = NULL
        THEN IF FindByEmail(contas, p.email) # {}
                   \/ GoogleIdTaken(uid, GoogleIdOr(p.googleId, NULL))
             THEN /\ authIds.administradora < Len(AdministradoraIdPool)
                  /\ authIds' = [authIds EXCEPT !.administradora = @ + 1]
                  /\ failed
             ELSE /\ authIds.usuario < Len(UsuarioIdPool)
                  /\ authIds.administradora < Len(AdministradoraIdPool)
                  /\ usuarios' = Insert(usuarios, uid,
                         [UsuarioRow("ADMINISTRADORA", adm, NULL, "FREEMIUM")
                             EXCEPT !.onboarded = FALSE])
                  /\ contas' = Insert(contas, uid,
                         [ContaRow(p.email, hashPassword(<<"g", "o", "o", "g", "l", "e">>),
                                   TRUE, NoHash, NoDate)
                             EXCEPT !.authProvider = "GOOGLE",
                                    !.googleId = GoogleIdOr(p.googleId, NULL)])
                  /\ authIds' = [authIds EXCEPT !.usuario = @ + 1,
                                                !.administradora = @ + 1]
                  /\ tokens' = tokens \cup {TokenOf(uid, usuarios'[uid])}
                  /\ inflight' = inflight \ {p}
                  /\ Answer(op, Absent, p.googleId, 302, NULL, "created", {uid})
                  /\ UNCHANGED <<dbVars, now, nTicks, loginAttempts, tokenLog, states,
                                 attemptLog>>
        ELSE LET linked == GoogleIdOr(p.googleId, p.old)
             IN  IF GoogleIdTaken(p.user, linked)
                 THEN failed /\ UNCHANGED authIds
                 ELSE /\ contas' = [contas EXCEPT
                              ![p.user].authProvider = "GOOGLE",
                              ![p.user].googleId = linked,
                              ![p.user].emailVerificado = TRUE]
                      /\ tokens' = IF p.state.mode = "link" /\ p.state.userId # NULL
                                   THEN tokens
                                   ELSE tokens \cup {TokenOf(p.user, usuarios[p.user])}
                      /\ inflight' = inflight \ {p}
                      /\ Answer(op, StateActor(p.state), p.googleId, 302, NULL,
                                IF p.state.mode = "link" /\ p.state.userId # NULL
                                THEN "linked" ELSE "ok",
                                {p.user})
                      /\ UNCHANGED <<usuarios, dbVars, now, nTicks, loginAttempts,
                                     authIds, tokenLog, states, attemptLog>>

---------------------------------------------------------------------------
\* Registration and verification with their awaits: a handler reads the store,
\* awaits, and writes; other requests are handled in between.

\* A number that tells a request in flight from the others in flight.
Slot == CHOOSE n \in 1..(Cardinality(inflight) + 1) : \A p \in inflight : p.n # n

\* Two registrations of one new email, and one with the email of a
\* provisioned user.
RaceBodies ==
    {[nome |-> "x", email |-> "e7", senha |-> SenhaNova, role |-> "ADMINISTRADORA",
      administradoraNome |-> "adm", condominioNome |-> UNDEF],
     [nome |-> "x", email |-> "e7", senha |-> SenhaNova, role |-> "SINDICO",
      administradoraNome |-> UNDEF, condominioNome |-> "n2"],
     [nome |-> "x", email |-> "E1", senha |-> SenhaNova, role |-> "SINDICO",
      administradoraNome |-> UNDEF, condominioNome |-> "n2"]}

\* The handler awaits: what it has read stays with the request.
Await(p) ==
    /\ inflight' = inflight \cup {p}
    /\ UNCHANGED <<userVars, dbVars, reqVars, guardVars, contas, now, nTicks,
                   loginAttempts, authIds, tokenLog, states, attemptLog>>

\* POST /auth/register, up to findUnique({ where: { email } }).
RegisterLookup(body) ==
    LET op == "POST /auth/register"
        nome == TextOrEmpty(body.nome)
        email == ToLowerCase(TextOrEmpty(body.email))
        senha == body.senha
        role == ToUpperCase(TextOrEmpty(body.role))
        administradoraNome == TextOrEmpty(body.administradoraNome)
        condominioNome == TextOrEmpty(body.condominioNome)
        rejected(status, error, gate) ==
            AuthReject(op, email, status, error, gate)
    IN  IF nome = "" \/ email = "" \/ senha = <<>>
        THEN rejected(400, "dados_obrigatorios", "validation")
        ELSE IF Len(senha) < MIN_PASSWORD_LENGTH
        THEN rejected(400, "senha_fraca", "validation")
        ELSE IF role # "ADMINISTRADORA" /\ role # "SINDICO"
        THEN rejected(400, "role_invalida", "validation")
        ELSE IF role = "ADMINISTRADORA" /\ administradoraNome = ""
        THEN rejected(400, "administradora_obrigatoria", "validation")
        ELSE IF role = "SINDICO" /\ condominioNome = ""
        THEN rejected(400, "condominio_obrigatorio", "validation")
        ELSE IF FindByEmail(contas, email) # {}
        THEN rejected(409, "email_em_uso", "conflict")
        ELSE Await([kind |-> "register", n |-> Slot, email |-> email, senha |-> senha,
                    role |-> role, condominioNome |-> condominioNome])

\* Usuario_email_key: the create would store an email another row holds.
EmailTaken(email) == FindByEmail(contas, email) # {}

\* POST /auth/register, the writes: the Administradora or the Condominio is
\* created, then the Usuario; a P2002 of the second create is answered 409.
RegisterWrite(p) ==
    LET op == "POST /auth/register"
        uid == UsuarioIdPool[authIds.usuario + 1]
        adm == AdministradoraIdPool[authIds.administradora + 1]
        cid == CondominioIdPool[nextId.condominio + 1]
        conta == ContaRow(p.email, hashPassword(p.senha), FALSE, hashToken(NewToken),
                          now + EMAIL_VERIFY_TTL_MS)
        taken == EmailTaken(p.email)
    IN  /\ authIds.usuario < Len(UsuarioIdPool)
        /\ authIds.token < Len(TokenPool)
        /\ authIds.administradora < Len(AdministradoraIdPool)
        /\ nextId.condominio + 1 < Len(CondominioIdPool)
        /\ inflight' = inflight \ {p}
        /\ IF p.role = "ADMINISTRADORA"
           THEN UNCHANGED dbVars
           ELSE /\ condominios' = Insert(condominios, cid,
                       [CondominioRow(NULL) EXCEPT !.nome = p.condominioNome])
                /\ nextId' = [nextId EXCEPT !.condominio = @ + 1]
                /\ UNCHANGED <<unidades, moradores, lancamentos>>
        /\ authIds' = [authIds EXCEPT
               !.administradora = IF p.role = "ADMINISTRADORA" THEN @ + 1 ELSE @,
               !.usuario = IF taken THEN @ ELSE @ + 1,
               !.token = IF taken THEN @ ELSE @ + 1]
        /\ IF taken
           THEN /\ Answer(op, Absent, p.email, 409, "email_em_uso", "store", {})
                /\ UNCHANGED <<usuarios, contas, tokenLog>>
           ELSE /\ contas' = Insert(contas, uid, conta)
                /\ tokenLog' = Insert(tokenLog, NewToken,
                       [kind |-> "verify", user |-> uid, at |-> now, used |-> FALSE])
                /\ usuarios' = Insert(usuarios, uid,
                       [UsuarioRow(p.role,
                                   IF p.role = "ADMINISTRADORA" THEN adm ELSE NULL,
                                   IF p.role = "ADMINISTRADORA" THEN NULL ELSE cid,
                                   "FREEMIUM")
                           EXCEPT !.onboarded = FALSE])
                /\ Answer(op, Absent, p.email, 201, NULL, "ok", {NewToken})
        /\ UNCHANGED <<tokens, now, nTicks, loginAttempts, states, attemptLog>>

\* POST /auth/verify-email, up to findFirst.
VerifyLookup(tokenIn) ==
    LET op == "POST /auth/verify-email"
        token == TextOrEmpty(tokenIn)
    IN  IF token = ""
        THEN AuthReject(op, token, 400, "token_invalido", "validation")
        ELSE IF VerifyCandidates(token) = {}
        THEN AuthReject(op, token, 400, "token_invalido", "lookup")
        ELSE \E uid \in VerifyCandidates(token) :
                Await([kind |-> "verify", n |-> Slot, token |-> token, user |-> uid])

\* POST /auth/verify-email, the update where id = user.id and the response.
VerifyWrite(p) ==
    /\ inflight' = inflight \ {p}
    /\ contas' = [contas EXCEPT ![p.user] = VerifiedConta(@)]
    /\ tokens' = tokens \cup {TokenOf(p.user, usuarios[p.user])}
    /\ tokenLog' = MarkUsed(p.token)
    /\ Answer("POST /auth/verify-email", Absent, p.token, 200, NULL, "ok", {p.user})
    /\ UNCHANGED <<usuarios, dbVars, now, nTicks, loginAttempts, authIds, states,
                   attemptLog>>

---------------------------------------------------------------------------
\* The plan-limited creations with their awaits: the count is read, the
\* handler awaits, and the row is created.

\* An /api handler answers after its await: the request leaves the ones in
\* flight.
Settle(p, op, target, status, error, gate, data) ==
    /\ inflight' = inflight \ {p}
    /\ Answer(op, p.actor, target, status, error, gate, data)
    /\ UNCHANGED <<contas, now, nTicks, loginAttempts, authIds, tokenLog, states,
                   attemptLog>>

\* POST /api/condominios, up to the count of the tenant's Condominios.
CreateCondominioCheck(t, body) ==
    LET op == "POST /api/condominios"
        nome == TextOrEmpty(body.nome)
    IN  IF ~isAdminOrOperator(t)
           THEN Reject(op, t, NULL, 403, "forbidden", "role")
        ELSE IF nome = ""
           THEN Reject(op, t, NULL, 400, "nome_obrigatorio", "validation")
        ELSE IF CondominioLimitReached(FindUsuario(t.id))
           THEN Reject(op, t, NULL, 403, "limite_plano", "plan")
        ELSE Await([kind |-> "condominio", n |-> Slot, actor |-> t, nome |-> nome,
                    cnpj |-> TextOrNull(body.cnpj),
                    endereco |-> TextOrNull(body.endereco)])

\* POST /api/condominios, prisma.condominio.create and the response.
CreateCondominioInsert(p) ==
    LET id == CondominioIdPool[nextId.condominio + 1]
    IN  /\ nextId.condominio + 1 < Len(CondominioIdPool)
        /\ condominios' = Insert(condominios, id,
                              [nome |-> p.nome, cnpj |-> p.cnpj, endereco |-> p.endereco,
                               administradoraId |-> p.actor.administradoraId])
        /\ nextId' = [nextId EXCEPT !.condominio = @ + 1]
        /\ Settle(p, "POST /api/condominios", NULL, 201, NULL, "ok", {id})
        /\ UNCHANGED <<userVars, unidades, moradores, lancamentos>>

\* POST /api/condominios/:condominioId/unidades, up to the count of the
\* Condominio's Unidades.
CreateUnidadeCheck(t, rawId, body) ==
    LET op == "POST /api/condominios/:condominioId/unidades"
        cid == Trim(rawId)
        identificador == TextOrEmpty(body.identificador)
    IN  IF ~isAdminOrOperator(t)
           THEN Reject(op, t, cid, 403, "forbidden", "role")
        ELSE IF cid = ""
           THEN Reject(op, t, cid, 400, "condominio_obrigatorio", "validation")
        ELSE IF identificador = ""
           THEN Reject(op, t, cid, 400, "identificador_obrigatorio", "validation")
        ELSE IF cid \notin DOMAIN condominios
           THEN Reject(op, t, cid, 404, "nao_encontrado", "lookup")
        ELSE IF ~canAccessCondominio(t, CondominioOf(cid))
           THEN Reject(op, t, cid, 403, "forbidden", "access")
        ELSE IF UnidadeLimitReached(FindUsuario(t.id), cid)
           THEN Reject(op, t, cid, 403, "limite_plano", "plan")
        ELSE Await([kind |-> "unidade", n |-> Slot, actor |-> t, condominioId |-> cid,
                    identificador |-> identificador, tipo |-> TextOrNull(body.tipo)])

\* POST /api/condominios/:condominioId/unidades, prisma.unidade.create and the
\* response; the create fails when the Condominio is gone.
CreateUnidadeInsert(p) ==
    LET op == "POST /api/condominios/:condominioId/unidades"
        id == UnidadeIdPool[nextId.unidade + 1]
    IN  /\ nextId.unidade + 1 < Len(UnidadeIdPool)
        /\ IF p.condominioId \notin DOMAIN condominios
           THEN /\ Settle(p, op, p.condominioId, 500, "internal_error", "store", {})
                /\ UNCHANGED <<userVars, dbVars>>
           ELSE /\ unidades' = Insert(unidades, id,
                                   [identificador |-> p.identificador, tipo |-> p.tipo,
                                    condominioId |-> p.condominioId])
                /\ nextId' = [nextId EXCEPT !.unidade = @ + 1]
                /\ Settle(p, op, p.condominioId, 201, NULL, "ok", {id})
                /\ UNCHANGED <<userVars, condominios, moradores, lancamentos>>

---------------------------------------------------------------------------
\* The server: one request at a time, each handled to its response.

CondominioBodies ==
    {[nome |-> UNDEF, cnpj |-> UNDEF, endereco |-> UNDEF],
     [nome |-> "n2", cnpj |-> UNDEF, endereco |-> UNDEF],
     [nome |-> "n2", cnpj |-> "k", endereco |-> " "]}

CondominioPatchBodies ==
    {[nome |-> UNDEF, cnpj |-> UNDEF, endereco |-> UNDEF, administradoraId |-> UNDEF],
     [nome |-> " ", cnpj |-> UNDEF, endereco |-> UNDEF, administradoraId |-> UNDEF],
     [nome |-> "n2", cnpj |-> UNDEF, endereco |-> UNDEF, administradoraId |-> "a2"],
     [nome |-> UNDEF, cnpj |-> "k", endereco |-> "", administradoraId |-> UNDEF]}

\* The response has been sent: the server is ready for the next request.
Deliver ==
    /\ lastReq # NoRequest
    /\ lastReq' = NoRequest
    /\ UNCHANGED <<nReq, userVars, dbVars, guardVars, authVars>>

GuardIdle ==
    /\ gUser = Absent
    /\ gCond = [id |-> "c1", administradoraId |-> NULL]
    /\ gResult = FALSE
    /\ gPc = "idle"

Init == InitStore(ApiUnidades) /\ GuardIdle

ApiTurn == lastReq = NoRequest /\ nReq < MaxApiRequests

Next ==
    \/ Deliver
    \/ \E t \in tokens : ApiTurn /\ ListCondominios(t)
    \/ \E t \in tokens, body \in CondominioBodies : ApiTurn /\ CreateCondominio(t, body)
    \/ \E t \in tokens, id \in PathIds(condominios, CondominioIdPool),
          body \in CondominioPatchBodies : ApiTurn /\ UpdateCondominio(t, id, body)
    \/ \E t \in tokens, id \in PathIds(condominios, CondominioIdPool) :
          ApiTurn /\ DeleteCondominio(t, id)
    \/ \E t \in tokens, plano \in PlanoInputs, nome \in NameInputs :
          ApiTurn /\ Onboarding(t, plano, nome)
    \/ \E t \in tokens, id \in PathIds(condominios, CondominioIdPool) :
          ApiTurn /\ ListUnidades(t, id)
    \/ \E t \in tokens, id \in PathIds(condominios, CondominioIdPool),
          body \in UnidadeBodies : ApiTurn /\ CreateUnidade(t, id, body)
    \/ \E t \in tokens, id \in PathIds(unidades, UnidadeIdPool),
          body \in UnidadePatchBodies : ApiTurn /\ UpdateUnidade(t, id, body)
    \/ \E t \in tokens, id \in PathIds(unidades, UnidadeIdPool) :
          ApiTurn /\ DeleteUnidade(t, id)
    \/ \E t \in tokens, id \in PathIds(unidades, UnidadeIdPool) :
          ApiTurn /\ ListMoradores(t, id)
    \/ \E t \in tokens, id \in PathIds(unidades, UnidadeIdPool),
          body \in MoradorBodies : ApiTurn /\ CreateMorador(t, id, body)
    \/ \E t \in tokens, id \in PathIds(moradores, MoradorIdPool),
          body \in MoradorPatchBodies : ApiTurn /\ UpdateMorador(t, id, body)
    \/ \E t \in tokens, id \in PathIds(moradores, MoradorIdPool) :
          ApiTurn /\ DeleteMorador(t, id)
    \/ \E t \in tokens, id \in PathIds(condominios, CondominioIdPool),
          query \in LancamentoQueries : ApiTurn /\ ListLancamentos(t, id, query)
    \/ \E t \in tokens, id \in PathIds(condominios, CondominioIdPool),
          body \in LancamentoBodies : ApiTurn /\ CreateLancamento(t, id, body)
    \/ \E t \in tokens, id \in PathIds(lancamentos, LancamentoIdPool),
          body \in LancamentoPatchBodies : ApiTurn /\ UpdateLancamento(t, id, body)
    \/ \E t \in tokens, id \in PathIds(lancamentos, LancamentoIdPool) :
          ApiTurn /\ DeleteLancamento(t, id)

Spec == Init /\ [][Next]_vars

\* The plan-limited routes, from a store where c1 is one Unidade short of the
\* free plan's limit.
InitPlan == InitStore(FreemiumMaxUnidades - 1) /\ GuardIdle

PlanTurn == lastReq = NoRequest /\ nReq < MaxPlanRequests

\* The actors of the plan-limited routes: an administrator of the tenant with
\* two Condominios, the administrator on the free plan, a board-member.
PlanActors == {"u1", "u3", "u4"}

PlanTokens == {t \in tokens : t.id \in PlanActors}

NextPlan ==
    \/ Deliver
    \/ \E t \in PlanTokens, body \in CondominioBodies :
          PlanTurn /\ CreateCondominio(t, body)
    \/ \E t \in PlanTokens, id \in PathIds(condominios, CondominioIdPool) :
          PlanTurn /\ DeleteCondominio(t, id)
    \/ \E t \in PlanTokens, plano \in PlanoInputs, nome \in NameInputs :
          PlanTurn /\ Onboarding(t, plano, nome)
    \/ \E t \in PlanTokens, id \in PathIds(condominios, CondominioIdPool),
          body \in UnidadeBodies : PlanTurn /\ CreateUnidade(t, id, body)
    \/ \E t \in PlanTokens, id \in PathIds(unidades, UnidadeIdPool) :
          PlanTurn /\ DeleteUnidade(t, id)

SpecPlan == InitPlan /\ [][NextPlan]_vars

---------------------------------------------------------------------------
\* Registration, verification and reset, with the clock.

\* How many requests of /auth a behaviour handles, and how many times the
\* clock is advanced.
MaxAuthRequests == 3

MaxTicks == 2

\* One millisecond, and the last millisecond before each token expires.
AuthTimeSteps == {1, RESET_TTL_MS - 1, EMAIL_VERIFY_TTL_MS - 1}

AuthTurn == lastReq = NoRequest /\ nReq < MaxAuthRequests

Tick == lastReq = NoRequest /\ nTicks < MaxTicks

NextAuth ==
    \/ Deliver
    \/ \E body \in RegisterBodies : AuthTurn /\ Register(body)
    \/ \E token \in TokenInputs : AuthTurn /\ VerifyEmail(token)
    \/ \E email \in EmailInputs : AuthTurn /\ ResendVerification(email)
    \/ \E email \in EmailInputs : AuthTurn /\ RequestReset(email)
    \/ \E token \in TokenInputs, senha \in SenhaInputs :
          AuthTurn /\ ResetPassword(token, senha)
    \/ \E d \in AuthTimeSteps : Tick /\ Advance(d)

SpecAuth == Init /\ [][NextAuth]_vars

---------------------------------------------------------------------------
\* Login attempts, with the clock.

\* How many login requests a behaviour handles.
MaxLoginRequests == 12

IpInputs == {"ip1", "ip2"}

\* The email of a provisioned user in another case, an email of no user, none.
LoginEmails == {"E1", "e9", UNDEF}

\* The password of the provisioned user, and another one.
LoginSenhas == {SenhaSeed, SenhaNova}

\* How many times the clock is advanced between login requests.
MaxLoginTicks == 1

\* The window of the rate limiter, and one millisecond more.
LoginTimeSteps == {LoginWindowMs, LoginWindowMs + 1}

\* The requests sent: two emails from one address, one of them from another.
LoginInputs ==
    {in \in [ip : IpInputs, email : LoginEmails, senha : LoginSenhas] :
        in.ip = "ip1" \/ in.email = "E1"}

LoginTurn == lastReq = NoRequest /\ nReq < MaxLoginRequests

LoginTick == lastReq = NoRequest /\ nTicks < MaxLoginTicks

NextLogin ==
    \/ Deliver
    \/ \E in \in LoginInputs : LoginTurn /\ Login(in.ip, in.email, in.senha)
    \/ \E d \in LoginTimeSteps : LoginTick /\ Advance(d)

SpecLogin == Init /\ [][NextLogin]_vars

---------------------------------------------------------------------------
\* Google sign-in and linking.

\* How many requests of the Google flow a behaviour handles, and how many
\* callbacks await their write at the same time.
MaxGoogleRequests == 4

MaxInflight == 2

GoogleTurn ==
    /\ lastReq = NoRequest
    /\ nReq + Cardinality(inflight) < MaxGoogleRequests

NextGoogle ==
    \/ Deliver
    \/ GoogleTurn /\ GoogleStart
    \/ \E t \in tokens : t.id \in GoogleActors /\ GoogleTurn /\ GoogleLink(t)
    \/ \E code \in CodeInputs, state \in states \cup {NoState}, info \in GoogleInfos :
          /\ GoogleTurn
          /\ Cardinality(inflight) < MaxInflight
          /\ GoogleCallback(code, state, info)
    \/ \E p \in inflight : lastReq = NoRequest /\ GoogleWrite(p)

SpecGoogle == Init /\ [][NextGoogle]_vars

---------------------------------------------------------------------------
\* The life of an account: registration, verification, reset, login,
\* onboarding and Google sign-in together.

MaxAccountRequests == 4

\* How many times the clock is advanced between the requests of an account.
MaxAccountTicks == 1

\* A day, and the hour a reset token lives.
AccountTimeSteps == {RESET_TTL_MS, EMAIL_VERIFY_TTL_MS}

\* Registrations with a new email and with the email of a provisioned user.
AccountBodies ==
    {b \in RegisterBodies :
        b.nome # UNDEF /\ b.senha = SenhaNova /\ b.email \in {"e7", "E1"}
           /\ b.role \in {"ADMINISTRADORA", "SINDICO"}}

\* The email registered, and the one of a provisioned user.
AccountEmails == {"e7", "E1"}

\* The Google identities with those emails.
AccountInfos == {i \in GoogleInfos : i.sub = "g1"}

\* The users that onboard and link: a provisioned one and the first new one.
AccountActors == {"u1", UsuarioIdPool[Cardinality(DOMAIN InitUsuarios) + 1]}

AccountTokens == {t \in tokens : t.id \in AccountActors}

AccountTurn ==
    /\ lastReq = NoRequest
    /\ nReq + Cardinality(inflight) < MaxAccountRequests

NextAccount ==
    \/ Deliver
    \/ \E body \in AccountBodies : AccountTurn /\ Register(body)
    \/ \E token \in TokenInputs : AccountTurn /\ VerifyEmail(token)
    \/ \E email \in AccountEmails : AccountTurn /\ ResendVerification(email)
    \/ \E email \in AccountEmails : AccountTurn /\ RequestReset(email)
    \/ \E token \in TokenInputs : AccountTurn /\ ResetPassword(token, SenhaSeed)
    \/ \E email \in AccountEmails, senha \in LoginSenhas :
          AccountTurn /\ Login("ip1", email, senha)
    \/ \E t \in AccountTokens, plano \in {UNDEF, "PROFISSIONAL"} :
          AccountTurn /\ Onboarding(t, plano, "n2")
    \/ \E t \in AccountTokens : AccountTurn /\ GoogleLink(t)
    \/ \E state \in states \cup {NoState}, info \in AccountInfos :
          /\ AccountTurn
          /\ Cardinality(inflight) < MaxInflight
          /\ GoogleCallback("code", state, info)
    \/ \E p \in inflight : lastReq = NoRequest /\ GoogleWrite(p)
    \/ \E d \in AccountTimeSteps :
          lastReq = NoRequest /\ nTicks < MaxAccountTicks /\ Advance(d)

SpecAccount == Init /\ [][NextAccount]_vars

---------------------------------------------------------------------------
\* Registrations and verifications handled concurrently.

MaxRaceRequests == 4

RaceTurn ==
    /\ lastReq = NoRequest
    /\ nReq + Cardinality(inflight) < MaxRaceRequests
    /\ Cardinality(inflight) < MaxInflight

NextRace ==
    \/ Deliver
    \/ \E body \in RaceBodies : RaceTurn /\ RegisterLookup(body)
    \/ \E p \in inflight : p.kind = "register" /\ lastReq = NoRequest /\ RegisterWrite(p)
    \/ \E token \in TokenInputs : RaceTurn /\ VerifyLookup(token)
    \/ \E p \in inflight : p.kind = "verify" /\ lastReq = NoRequest /\ VerifyWrite(p)

SpecRace == Init /\ [][NextRace]_vars

---------------------------------------------------------------------------
\* Plan-limited creations handled concurrently, at the boundary: the
\* administrator of tenant a1 has chosen the free plan and Condominio c1 holds
\* one Unidade less than the limit; the administrator of tenant a2 is on the
\* free plan and has deleted its only Condominio.

MaxQuotaRequests == 3

\* How many creations await their insert at the same time.
MaxQuotaInflight == 3

QuotaActors == {"u1", "u3"}

InitQuota ==
    LET n == FreemiumMaxUnidades - 1
    IN  /\ usuarios = [InitUsuarios EXCEPT !["u1"].plano = "FREEMIUM"]
        /\ tokens = {TokenOf(u, InitUsuarios[u]) : u \in DOMAIN InitUsuarios}
        /\ condominios = Remove(InitCondominios, "c3")
        /\ unidades = InitUnidades(n)
        /\ moradores = InitMoradores(n)
        /\ lancamentos = InitLancamentos
        /\ nextId = [condominio |-> Cardinality(DOMAIN InitCondominios),
                     unidade |-> n + 1,
                     morador |-> Cardinality(DOMAIN InitMoradores(n)),
                     lancamento |-> Cardinality(DOMAIN InitLancamentos)]
        /\ lastReq = NoRequest
        /\ nReq = 0
        /\ InitAuth
        /\ GuardIdle

QuotaTurn ==
    /\ lastReq = NoRequest
    /\ nReq + Cardinality(inflight) < MaxQuotaRequests
    /\ Cardinality(inflight) < MaxQuotaInflight

NextQuota ==
    \/ Deliver
    \/ \E t \in tokens, body \in CondominioBodies :
          t.id \in QuotaActors /\ QuotaTurn /\ CreateCondominioCheck(t, body)
    \/ \E p \in inflight :
          p.kind = "condominio" /\ lastReq = NoRequest /\ CreateCondominioInsert(p)
    \/ \E t \in tokens, id \in {"c1", "c2"}, body \in UnidadeBodies :
          t.id \in QuotaActors /\ QuotaTurn /\ CreateUnidadeCheck(t, id, body)
    \/ \E p \in inflight :
          p.kind = "unidade" /\ lastReq = NoRequest /\ CreateUnidadeInsert(p)

SpecQuota == InitQuota /\ [][NextQuota]_vars

---------------------------------------------------------------------------
\* The guard applied to every actor and every Condominium of the bounded sets.

GuardUsers ==
    {Absent} \cup
    [id : {"u1"}, role : Roles,
     administradoraId : AdministradoraIds \cup {NULL},
     condominioId : {"c1", "c2", NULL}]

GuardCondominios ==
    [id : {"c1", "c2"}, administradoraId : AdministradoraIds \cup {NULL}]

InitGuard ==
    /\ gUser \in GuardUsers
    /\ gCond \in GuardCondominios
    /\ gResult = FALSE
    /\ gPc = "call"
    /\ InitStore(ApiUnidades)

GuardApply ==
    /\ gPc = "call"
    /\ gResult' = canAccessCondominio(gUser, gCond)
    /\ gPc' = "done"
    /\ UNCHANGED <<gUser, gCond, userVars, dbVars, reqVars, authVars>>

NextGuard == GuardApply

SpecGuard == InitGuard /\ [][NextGuard]_vars

---------------------------------------------------------------------------
\* C1: for a SINDICO actor canAccessCondominio(actor, C) is true exactly when
\* actor.condominioId equals C.id, whatever the two administradoraId are; for
\* an absent actor it is false.
C1_SindicoAccessIffOwnCondominio ==
    gPc = "done" =>
        /\ (gUser # Absent /\ gUser.role = "SINDICO")
               => (gResult <=> gUser.condominioId = gCond.id)
        /\ gUser = Absent => gResult = FALSE

\* A SINDICO of another tenant's Condominium is granted access to it.
C1_Witness ==
    /\ gPc = "done"
    /\ gUser # Absent
    /\ gUser.role = "SINDICO"
    /\ gUser.condominioId = gCond.id
    /\ gUser.administradoraId # gCond.administradoraId
    /\ gResult = TRUE

\* C2: for an ADMINISTRADORA or OPERADOR actor canAccessCondominio(actor, C) is
\* true exactly when actor.administradoraId is non-null and equals
\* C.administradoraId.
C2_TenantAccessIffSameAdministradora ==
    (gPc = "done" /\ gUser # Absent /\ gUser.role \in {"ADMINISTRADORA", "OPERADOR"})
        => (gResult <=> (/\ gUser.administradoraId # NULL
                         /\ gUser.administradoraId = gCond.administradoraId))

\* An operator without administradoraId is denied a Condominium without owner.
C2_Witness ==
    /\ gPc = "done"
    /\ gUser # Absent
    /\ gUser.role = "OPERADOR"
    /\ gUser.administradoraId = NULL
    /\ gCond.administradoraId = NULL
    /\ gResult = FALSE

---------------------------------------------------------------------------
\* The requests the claims speak of, by the table their path id addresses.

CondominioScopedOps ==
    {"PATCH /api/condominios/:id", "DELETE /api/condominios/:id",
     "GET /api/condominios/:condominioId/unidades",
     "POST /api/condominios/:condominioId/unidades",
     "GET /api/condominios/:condominioId/lancamentos",
     "POST /api/condominios/:condominioId/lancamentos"}

UnidadeScopedOps ==
    {"PATCH /api/unidades/:id", "DELETE /api/unidades/:id",
     "GET /api/unidades/:unidadeId/moradores", "POST /api/unidades/:unidadeId/moradores"}

MoradorScopedOps == {"PATCH /api/moradores/:id", "DELETE /api/moradores/:id"}

LancamentoScopedOps == {"PATCH /api/lancamentos/:id", "DELETE /api/lancamentos/:id"}

ScopedOps ==
    CondominioScopedOps \cup UnidadeScopedOps \cup MoradorScopedOps
        \cup LancamentoScopedOps

ReadOps ==
    {"GET /api/condominios/:condominioId/unidades",
     "GET /api/unidades/:unidadeId/moradores",
     "GET /api/condominios/:condominioId/lancamentos"}

MutatingOps == {"POST /api/condominios"} \cup (ScopedOps \ ReadOps)

\* Whether the row a request addresses is in the store.
TargetExists(op, target) ==
    CASE op \in CondominioScopedOps -> target \in DOMAIN condominios
      [] op \in UnidadeScopedOps -> target \in DOMAIN unidades
      [] op \in MoradorScopedOps -> target \in DOMAIN moradores
      [] OTHER -> target \in DOMAIN lancamentos

\* The Condominio that owns the row a request addresses.
OwnerOf(op, target) ==
    CASE op \in CondominioScopedOps -> target
      [] op \in UnidadeScopedOps -> unidades[target].condominioId
      [] op \in MoradorScopedOps -> unidades[moradores[target].unidadeId].condominioId
      [] OTHER -> lancamentos[target].condominioId

\* This step handles a request; lastReq' is the request and its response.
Handles == lastReq = NoRequest /\ lastReq' # NoRequest

Succeeded(req) == req.status \in {200, 201, 204}

Resources == <<condominios, unidades, moradores, lancamentos>>

---------------------------------------------------------------------------
\* C3: every mutating /api endpoint answers 403 forbidden to a SINDICO actor,
\* whatever the row addressed, and never rejects an ADMINISTRADORA or OPERADOR
\* actor at the role gate.
C3_MutationsClosedToSindico ==
    lastReq.op \in MutatingOps =>
        /\ lastReq.actor.role = "SINDICO"
              => (lastReq.status = 403 /\ lastReq.error = "forbidden")
        /\ lastReq.actor.role \in {"ADMINISTRADORA", "OPERADOR"}
              => lastReq.gate # "role"

\* A SINDICO is refused the update of a Unidade of its own Condominio.
C3_Witness ==
    /\ lastReq.op = "PATCH /api/unidades/:id"
    /\ lastReq.actor.role = "SINDICO"
    /\ lastReq.target \in DOMAIN unidades
    /\ unidades[lastReq.target].condominioId = lastReq.actor.condominioId
    /\ lastReq.status = 403

\* C4: no request made by a SINDICO actor, POST /auth/onboarding included,
\* creates, changes or deletes a Condominio, Unidade, Morador or Lancamento.
C4_SindicoRequestsChangeNothing ==
    [][(Handles /\ lastReq'.actor.role = "SINDICO") => UNCHANGED Resources]_vars

\* C5: a scoped read or mutation takes effect only when
\* canAccessCondominio(actor, owning Condominio) is true.
C5_EffectOnlyWithAccess ==
    [][(Handles /\ lastReq'.op \in ScopedOps /\ Succeeded(lastReq'))
          => canAccessCondominio(lastReq'.actor,
                                 CondominioOf(OwnerOf(lastReq'.op, lastReq'.target)))]_vars

\* C6: GET /api/condominios returns a Condominio to an actor only if
\* canAccessCondominio(actor, that Condominio) is true.
C6_ListOnlyAccessible ==
    lastReq.op = "GET /api/condominios" =>
        \A c \in lastReq.data : canAccessCondominio(lastReq.actor, CondominioOf(c))

\* C7: a request addressed to a row id that reaches the lookup (it is not
\* stopped by the role gate or by the validation of its input) answers
\* nao_encontrado when the row does not exist, and forbidden when the row
\* exists and canAccessCondominio denies its Condominio to the actor.
C7_NotFoundThenForbidden ==
    [][(Handles /\ lastReq'.op \in ScopedOps
               /\ lastReq'.gate \notin {"role", "validation"})
          => IF ~TargetExists(lastReq'.op, lastReq'.target)
             THEN lastReq'.status = 404 /\ lastReq'.error = "nao_encontrado"
             ELSE ~canAccessCondominio(lastReq'.actor,
                        CondominioOf(OwnerOf(lastReq'.op, lastReq'.target)))
                    => (lastReq'.status = 403 /\ lastReq'.error = "forbidden")]_vars

\* C8: POST /api/condominios by a FREEMIUM actor whose Administradora owns
\* exactly FreemiumMaxCondominios Condominios creates nothing, and is answered
\* limite_plano once past the role gate and the validation of nome; by an actor
\* on another plan it is never answered limite_plano.
C8_CondominioPlanLimit ==
    [][(Handles /\ lastReq'.op = "POST /api/condominios")
          => LET u == usuarios[lastReq'.actor.id]
             IN  /\ (/\ u.plano = "FREEMIUM"
                     /\ u.administradoraId # NULL
                     /\ CountCondominios(u.administradoraId) = FreemiumMaxCondominios)
                       => /\ condominios' = condominios
                          /\ ~Succeeded(lastReq')
                          /\ lastReq'.gate \notin {"role", "validation"}
                                => lastReq'.error = "limite_plano"
                 /\ u.plano # "FREEMIUM" => lastReq'.error # "limite_plano"]_vars

\* A FREEMIUM administrator with one Condominio is refused a second one.
C8_Witness ==
    /\ lastReq.op = "POST /api/condominios"
    /\ lastReq.error = "limite_plano"
    /\ usuarios[lastReq.actor.id].plano = "FREEMIUM"
    /\ CountCondominios(lastReq.actor.administradoraId) = FreemiumMaxCondominios

\* C9: an Administradora with a user on plano FREEMIUM owns at most
\* FreemiumMaxCondominios Condominios.
C9_FreemiumTenantWithinLimit ==
    \A u \in DOMAIN usuarios :
        (usuarios[u].plano = "FREEMIUM" /\ usuarios[u].administradoraId # NULL)
            => CountCondominios(usuarios[u].administradoraId) <= FreemiumMaxCondominios

\* C10: POST /api/condominios/:id/unidades by a FREEMIUM actor that passes the
\* role gate, the validation, the lookup and the access guard creates the
\* Unidade when the Condominio addressed holds fewer than FreemiumMaxUnidades,
\* and is answered limite_plano, creating nothing, when it holds that many or
\* more; only the Unidades of the Condominio addressed are counted.
C10_UnidadePlanLimit ==
    [][(/\ Handles
        /\ lastReq'.op = "POST /api/condominios/:condominioId/unidades"
        /\ lastReq'.gate \notin {"role", "validation"}
        /\ lastReq'.target \in DOMAIN condominios
        /\ canAccessCondominio(lastReq'.actor, CondominioOf(lastReq'.target))
        /\ usuarios[lastReq'.actor.id].plano = "FREEMIUM")
          => IF CountUnidades(lastReq'.target) < FreemiumMaxUnidades
             THEN /\ lastReq'.status = 201
                  /\ \E id \in DOMAIN unidades' \ DOMAIN unidades :
                        /\ DOMAIN unidades' = DOMAIN unidades \cup {id}
                        /\ unidades'[id].condominioId = lastReq'.target
             ELSE /\ lastReq'.status = 403 /\ lastReq'.error = "limite_plano"
                  /\ unidades' = unidades]_vars

\* A FREEMIUM actor is refused the 16th Unidade of a Condominio that holds 15,
\* in a tenant whose other Condominio holds Unidades too.
C10_Witness ==
    /\ lastReq.op = "POST /api/condominios/:condominioId/unidades"
    /\ lastReq.error = "limite_plano"
    /\ usuarios[lastReq.actor.id].plano = "FREEMIUM"
    /\ CountUnidades(lastReq.target) = FreemiumMaxUnidades
    /\ \E c \in DOMAIN condominios \ {lastReq.target} :
          /\ condominios[c].administradoraId = lastReq.actor.administradoraId
          /\ CountUnidades(c) > 0

\* C11: in every state, two ADMINISTRADORA or OPERADOR users of the same
\* Administradora get the same plan-limit decision, for the creation of a
\* Condominio and for the creation of a Unidade in each Condominio of the tenant.
C11_SameTenantSameDecision ==
    \A u, v \in DOMAIN usuarios :
        (/\ usuarios[u].role \in {"ADMINISTRADORA", "OPERADOR"}
         /\ usuarios[v].role \in {"ADMINISTRADORA", "OPERADOR"}
         /\ usuarios[u].administradoraId # NULL
         /\ usuarios[u].administradoraId = usuarios[v].administradoraId)
            => /\ CondominioLimitReached(usuarios[u]) <=> CondominioLimitReached(usuarios[v])
               /\ \A c \in DOMAIN condominios :
                     condominios[c].administradoraId = usuarios[u].administradoraId
                        => (UnidadeLimitReached(usuarios[u], c)
                               <=> UnidadeLimitReached(usuarios[v], c))

\* The record history keeps of the token a request has sent.
SentToken(req, kind) ==
    /\ req.target \in DOMAIN tokenLog
    /\ tokenLog[req.target].kind = kind

\* C12: once POST /auth/verify-email has succeeded with a token, every later
\* verify-email with that token is answered token_invalido and changes no user.
C12_VerificationTokenSingleUse ==
    [][(/\ Handles
        /\ lastReq'.op = "POST /auth/verify-email"
        /\ SentToken(lastReq', "verify")
        /\ tokenLog[lastReq'.target].used)
          => /\ lastReq'.status = 400 /\ lastReq'.error = "token_invalido"
             /\ UNCHANGED <<usuarios, contas>>]_vars

\* A token that has verified its user is sent again and refused.
C12_Witness ==
    /\ lastReq.op = "POST /auth/verify-email"
    /\ SentToken(lastReq, "verify")
    /\ tokenLog[lastReq.target].used
    /\ contas[tokenLog[lastReq.target].user].emailVerificado
    /\ lastReq.error = "token_invalido"

\* C13: a verification token sent EMAIL_VERIFY_TTL_MS or more after it was
\* issued (by register or resend-verification) is answered token_invalido and
\* no row of Usuario changes; sent before that while it is the token stored
\* for its user, it verifies the user.
C13_VerificationTokenExpires ==
    [][(/\ Handles
        /\ lastReq'.op = "POST /auth/verify-email"
        /\ SentToken(lastReq', "verify"))
          => LET issue == tokenLog[lastReq'.target]
             IN  IF now - issue.at >= EMAIL_VERIFY_TTL_MS
                 THEN /\ lastReq'.status = 400 /\ lastReq'.error = "token_invalido"
                      /\ UNCHANGED <<usuarios, contas>>
                 ELSE contas[issue.user].emailVerificationToken = hashToken(lastReq'.target)
                         => /\ lastReq'.status = 200
                            /\ contas'[issue.user].emailVerificado]_vars

\* A token is refused exactly 24 hours after it was issued: it is still the
\* one stored for its user, who stays unverified.
C13_Witness ==
    /\ lastReq.op = "POST /auth/verify-email"
    /\ SentToken(lastReq, "verify")
    /\ now - tokenLog[lastReq.target].at = EMAIL_VERIFY_TTL_MS
    /\ contas[tokenLog[lastReq.target].user].emailVerificationToken
          = hashToken(lastReq.target)
    /\ ~contas[tokenLog[lastReq.target].user].emailVerificado
    /\ lastReq.error = "token_invalido"

\* A reset token issued to the same user after this one.
Superseded(token) ==
    \E t \in DOMAIN tokenLog :
        /\ tokenLog[t].kind = "reset"
        /\ tokenLog[t].user = tokenLog[token].user
        /\ PoolIndex(TokenPool, t) > PoolIndex(TokenPool, token)

C15_FixedWindowPerKey ==
    [][(/\ Handles
        /\ lastReq'.op = "POST /auth/login"
        /\ lastReq'.gate # "validation")
          => LET key == lastReq'.target
             IN  /\ (lastReq'.status = 429 /\ lastReq'.error = "muitas_tentativas")
                        <=> AttemptNumber(key) > LoginLimit
                 /\ lastReq'.status = 429 \/ lastReq'.error # "muitas_tentativas"
                 /\ \A k \in DOMAIN loginAttempts \ {key} :
                       /\ k \in DOMAIN loginAttempts'
                       /\ loginAttempts'[k] = loginAttempts[k]]_vars

\* The 11th attempt of a window is refused while another key has attempts too.
C15_Witness ==
    /\ lastReq.op = "POST /auth/login"
    /\ lastReq.status = 429
    /\ lastReq.target \in DOMAIN attemptLog
    /\ attemptLog[lastReq.target].n = LoginLimit + 1
    /\ \E k \in DOMAIN attemptLog : k # lastReq.target

\* The table of users without the account of an email, and with one.
WithoutAccount(table, email) ==
    [u \in DOMAIN table \ FindByEmail(table, email) |-> table[u]]

WithAccount(table, email) ==
    IF FindByEmail(table, email) # {} THEN table
    ELSE Insert(table, "u0", ContaRow(email, hashPassword(SenhaSeed), TRUE, NoHash, NoDate))

\* C16: in every state and for every login request, if the response is 429 in
\* the run where an account with the submitted email exists or in the run
\* where none exists (same address, same attempts, same clock), then it is the
\* same response in both; and a 429 is decided at the rate limiter, before the
\* user is looked up.
C16_RateLimitHidesAccounts ==
    /\ \A in \in LoginInputs :
          LET email == ToLowerCase(TextOrEmpty(in.email))
              known == LoginOutcome(loginAttempts, now, in.ip, in.email, in.senha,
                                    WithAccount(contas, email))
              unknown == LoginOutcome(loginAttempts, now, in.ip, in.email, in.senha,
                                      WithoutAccount(contas, email))
          IN  (known.status = 429 \/ unknown.status = 429)
                 => /\ known = unknown
                    /\ known.error = "muitas_tentativas"
    /\ (lastReq.op = "POST /auth/login" /\ lastReq.status = 429)
          => lastReq.gate = "rate" /\ lastReq.data = {}

\* A login with an email of no account is refused by the rate limiter, and the
\* next one under that key would be too.
C16_Witness ==
    /\ lastReq.op = "POST /auth/login"
    /\ lastReq.status = 429
    /\ FindByEmail(contas, lastReq.target[2]) = {}
    /\ isRateLimited(loginAttempts, now, lastReq.target)

---------------------------------------------------------------------------
\* Linking a Google identity.

\* The request answered by this step is a Google callback in link mode.
LinkAnswered ==
    /\ Handles
    /\ lastReq'.op = "GET /auth/google/callback"
    /\ lastReq'.actor # Absent
    /\ lastReq'.actor.id \in DOMAIN contas

\* The googleId is stored on a user other than `linkUser`.
StoredOnOther(linkUser, googleId) ==
    /\ googleId # ""
    /\ \E u \in DOMAIN contas \ {linkUser} : contas[u].googleId = googleId

\* C17: in every step, a callback in link mode whose googleId is stored on a
\* user other than the one of its signed state is not admitted to its write;
\* when the callback carries a code and an email and answers from its lookups,
\* the answer is google_linked_to_other, and no user is changed (were the
\* googleId stored on the other user only after the lookups, the write is
\* refused and no user is changed either); and whatever a link callback
\* answers, no account other than the one of the signed state is changed and
\* none is created.
C17_LinkRefusedWhenLinkedToOther ==
    [][/\ \A p \in inflight' \ inflight :
             p.state.mode = "link" => ~StoredOnOther(p.state.userId, p.googleId)
       /\ LinkAnswered =>
             /\ StoredOnOther(lastReq'.actor.id, lastReq'.target)
                   => /\ UNCHANGED <<usuarios, contas>>
                      /\ (inflight' = inflight /\ lastReq'.gate # "validation")
                            => lastReq'.error = "google_linked_to_other"
                      /\ inflight' # inflight => lastReq'.error = "google_callback"
             /\ usuarios' = usuarios
             /\ DOMAIN contas' = DOMAIN contas
             /\ \A u \in DOMAIN contas \ {lastReq'.actor.id} : contas'[u] = contas[u]
      ]_vars

\* A link callback was refused because the googleId it carries is stored on a
\* user other than the one that started the link.
C17_Witness ==
    /\ lastReq.op = "GET /auth/google/callback"
    /\ lastReq.error = "google_linked_to_other"
    /\ lastReq.actor # Absent
    /\ StoredOnOther(lastReq.actor.id, lastReq.target)

\* C18: in every state, no two accounts hold the same googleId (an account
\* holds at most one: googleId is a single nullable column).
C18_GoogleIdUnique ==
    \A u, v \in DOMAIN contas :
        (u # v /\ contas[u].googleId # NULL) => contas[u].googleId # contas[v].googleId

\* The write of a callback was refused because another account had come to
\* hold the googleId since the callback's lookups, and two accounts hold a
\* googleId each.
C18_Witness ==
    /\ lastReq.op = "GET /auth/google/callback"
    /\ lastReq.gate = "store"
    /\ \E u \in DOMAIN contas : contas[u].googleId = lastReq.target
    /\ \E u, v \in DOMAIN contas :
          u # v /\ contas[u].googleId # NULL /\ contas[v].googleId # NULL

---------------------------------------------------------------------------
\* The Administradora of a Condominio.

\* C19: in every step, whichever request is handled, every Condominio that
\* exists before and after the step has the same administradoraId.
C19_AdministradoraImmutable ==
    [][\A c \in DOMAIN condominios \cap DOMAIN condominios' :
           condominios'[c].administradoraId = condominios[c].administradoraId]_vars

\* A PATCH whose body carried a nome and the administradoraId of another
\* tenant has succeeded on a Condominio: the nome is written, the
\* administradoraId is the one the Condominio was created with.
C19_Witness ==
    /\ lastReq.op = "PATCH /api/condominios/:id"
    /\ Succeeded(lastReq)
    /\ lastReq.target \in DOMAIN condominios
    /\ condominios[lastReq.target].nome = "n2"
    /\ condominios[lastReq.target].administradoraId = "a1"

---------------------------------------------------------------------------
\* Validation and the access checks.

\* POST /api/condominios/:condominioId/unidades answers a validation error to
\* this body when it gets to validate it.
UnidadeMalformed(body) == TextOrEmpty(body.identificador) = ""

\* PATCH /api/unidades/:id answers a validation error to this body when it
\* gets to validate it.
UnidadePatchMalformed(body) ==
    LET patch == UnidadePatch(body)
    IN  \/ "identificador" \in DOMAIN patch /\ patch.identificador = ""
        \/ DOMAIN patch = {}

\* PATCH /api/lancamentos/:id answers a validation error to this body when it
\* gets to validate it.
LancamentoPatchMalformed(body) ==
    LET patch == LancamentoPatch(body)
    IN  \/ "tipo" \in DOMAIN patch /\ ~TipoValido(patch.tipo)
        \/ "valor" \in DOMAIN patch /\ patch.valor = <<>>
        \/ "data" \in DOMAIN patch /\ patch.data = NULL
        \/ DOMAIN patch = {}

\* C20: in every step that handles a POST of a Unidade, a PATCH of a Unidade
\* or a PATCH of a Lancamento whose body is missing or malformed, the response
\* is the validation error, whatever the role and scope of the actor and
\* whether or not the target exists.
C20_ValidationBeforeAccess ==
    [][\A t \in tokens :
          /\ \A id \in PathIds(condominios, CondominioIdPool), body \in UnidadeBodies :
                (UnidadeMalformed(body) /\ CreateUnidade(t, id, body))
                   => lastReq'.gate = "validation"
          /\ \A id \in PathIds(unidades, UnidadeIdPool), body \in UnidadePatchBodies :
                (UnidadePatchMalformed(body) /\ UpdateUnidade(t, id, body))
                   => lastReq'.gate = "validation"
          /\ \A id \in PathIds(lancamentos, LancamentoIdPool),
                body \in LancamentoPatchBodies :
                (LancamentoPatchMalformed(body) /\ UpdateLancamento(t, id, body))
                   => lastReq'.gate = "validation"
      ]_vars

---------------------------------------------------------------------------
\* The owner of a Condominio at its creation.

\* C25: in every step, every Condominio the step creates has an
\* administradoraId that is not null.
C25_CondominioCreatedWithOwner ==
    [][\A c \in DOMAIN condominios' \ DOMAIN condominios :
           condominios'[c].administradoraId # NULL]_vars

---------------------------------------------------------------------------
\* The reset token and the verification token.

\* C24: in every step that answers request-reset or reset-password, no account
\* is created and every account keeps its emailVerificado, its stored
\* verification token and that token's expiry; in every step that answers
\* register, resend-verification or verify-email, every account that existed
\* keeps its password hash, its stored reset token and that token's expiry.
C24_ResetIndependentOfVerification ==
    [][Handles =>
          /\ lastReq'.op \in {"POST /auth/request-reset", "POST /auth/reset-password"}
                => /\ DOMAIN contas' = DOMAIN contas
                   /\ \A u \in DOMAIN contas :
                         /\ contas'[u].emailVerificado = contas[u].emailVerificado
                         /\ contas'[u].emailVerificationToken
                               = contas[u].emailVerificationToken
                         /\ contas'[u].emailVerificationExpires
                               = contas[u].emailVerificationExpires
          /\ lastReq'.op \in {"POST /auth/register", "POST /auth/resend-verification",
                              "POST /auth/verify-email"}
                => \A u \in DOMAIN contas :
                      /\ u \in DOMAIN contas'
                      /\ contas'[u].senhaHash = contas[u].senhaHash
                      /\ contas'[u].passwordResetToken = contas[u].passwordResetToken
                      /\ contas'[u].passwordResetExpires = contas[u].passwordResetExpires
      ]_vars

\* A user registered, asked for a reset token and then redeemed the
\* verification token: the account is verified and still holds the reset token.
C24_Witness ==
    /\ lastReq.op = "POST /auth/verify-email"
    /\ lastReq.status = 200
    /\ \E u \in lastReq.data :
          /\ contas[u].emailVerificado
          /\ contas[u].passwordResetToken # NoHash
          /\ contas[u].passwordResetExpires > now

---------------------------------------------------------------------------
\* A rate-limited key.

\* The key has been refused in the window its entry records.
KeyLimited(key) ==
    /\ key \in DOMAIN loginAttempts
    /\ loginAttempts[key].count > LoginLimit

---------------------------------------------------------------------------
\* The Condominio an onboarding creates.

\* C29: in every step that answers POST /auth/onboarding, at most one
\* Condominio is created; one is created only when the actor is an
\* ADMINISTRADORA whose tenant owned none, and it belongs to that tenant; and
\* after a successful call by an ADMINISTRADORA the tenant owns at least one,
\* so that the next call creates none, whatever plan is chosen.
C29_OnboardingCreatesOnlyFirst ==
    [][(Handles /\ lastReq'.op = "POST /auth/onboarding")
          => LET user == FindUsuario(lastReq'.actor.id)
                 created == DOMAIN condominios' \ DOMAIN condominios
             IN  /\ Cardinality(created) <= 1
                 /\ DOMAIN condominios \subseteq DOMAIN condominios'
                 /\ created # {}
                       => /\ user.role = "ADMINISTRADORA"
                          /\ CountCondominios(user.administradoraId) = 0
                          /\ \A c \in created :
                                condominios'[c].administradoraId = user.administradoraId
                 /\ (user.role = "ADMINISTRADORA" /\ Succeeded(lastReq'))
                       => \E c \in DOMAIN condominios' :
                             condominios'[c].administradoraId = user.administradoraId
      ]_vars

\* The administrator of a tenant that had lost its only Condominio onboarded:
\* the call created the one Condominio the tenant now owns.
C29_Witness ==
    /\ lastReq.op = "POST /auth/onboarding"
    /\ Succeeded(lastReq)
    /\ nReq = 2
    /\ nextId.condominio = Cardinality(DOMAIN InitCondominios) + 1
    /\ CountCondominios(lastReq.actor.administradoraId) = 1
    /\ \E c \in DOMAIN condominios \ DOMAIN InitCondominios :
          condominios[c].administradoraId = lastReq.actor.administradoraId

---------------------------------------------------------------------------
\* The verification state of an account.

\* C23: in every step, whichever request is handled, every account whose
\* emailVerificado is true still exists after the step with emailVerificado
\* true.
C23_VerifiedStaysVerified ==
    [][\A u \in DOMAIN contas :
           contas[u].emailVerificado
              => u \in DOMAIN contas' /\ contas'[u].emailVerificado]_vars

\* A user who registered and verified the email has since reset the
\* password, and is still verified.
C23_Witness ==
    /\ lastReq.op = "POST /auth/reset-password"
    /\ lastReq.status = 200
    /\ \E u \in lastReq.data :
          /\ u \notin DOMAIN InitContas
          /\ contas[u].authProvider = "LOCAL"
          /\ contas[u].emailVerificado

---------------------------------------------------------------------------
\* Verified accounts and the verification token.

\* C26: in every state, no account whose emailVerificado is true holds a
\* stored verification token that has not expired.
C26_VerifiedHasNoRedeemableToken ==
    \A u \in DOMAIN contas :
        contas[u].emailVerificado
           => ~(/\ contas[u].emailVerificationToken # NoHash
                /\ contas[u].emailVerificationExpires > now)

---------------------------------------------------------------------------
\* Login before the email is verified.

\* The LOCAL accounts with this email whose email is not verified.
Unverified(email) ==
    {u \in FindByEmail(contas, email) :
        contas[u].authProvider = "LOCAL" /\ ~contas[u].emailVerificado}

\* C30: in every step that handles a login for the email of a LOCAL account
\* that is not verified, no session token is issued; and when the attempt
\* carries an email and a password and is not rate-limited, the answer is 403
\* email_nao_verificado, decided before the password is looked at.
C30_UnverifiedNeverLogsIn ==
    [][(/\ Handles
        /\ lastReq'.op = "POST /auth/login"
        /\ Unverified(lastReq'.target[2]) # {})
          => /\ lastReq'.status # 200
             /\ tokens' = tokens
             /\ lastReq'.gate \notin {"validation", "rate"}
                   => /\ lastReq'.status = 403
                      /\ lastReq'.error = "email_nao_verificado"
                      /\ lastReq'.gate = "verification"
      ]_vars

\* A user who registered and has not verified the email is refused at login.
C30_Witness ==
    /\ lastReq.op = "POST /auth/login"
    /\ lastReq.status = 403
    /\ lastReq.error = "email_nao_verificado"
    /\ Unverified(lastReq.target[2]) # {}
    /\ \A u \in Unverified(lastReq.target[2]) : TokenOf(u, usuarios[u]) \notin tokens

---------------------------------------------------------------------------
\* Concurrent requests of the /auth routes.

\* C22: in every step that answers POST /auth/verify-email with success, the
\* token had not been redeemed before: of the requests that carry one token,
\* at most one succeeds.
C22_ConcurrentVerifyOnce ==
    [][(/\ Handles
        /\ lastReq'.op = "POST /auth/verify-email"
        /\ lastReq'.status = 200
        /\ lastReq'.target \in DOMAIN tokenLog)
          => ~tokenLog[lastReq'.target].used]_vars

\* C28: in every step that answers POST /auth/register with email_em_uso, no
\* Usuario, no Condominio and no Administradora is created.
C28_EmailInUseChangesNothing ==
    [][(/\ Handles
        /\ lastReq'.op = "POST /auth/register"
        /\ lastReq'.error = "email_em_uso")
          => /\ usuarios' = usuarios
             /\ contas' = contas
             /\ condominios' = condominios
             /\ authIds'.administradora = authIds.administradora]_vars

---------------------------------------------------------------------------
\* Concurrent creations at the plan limit.

\* The tenants with a user on the free plan.
FreemiumTenants ==
    {usuarios[u].administradoraId : u \in {v \in DOMAIN usuarios :
        usuarios[v].plano = "FREEMIUM" /\ usuarios[v].administradoraId # NULL}}

\* C21: in every state reached by creation requests of the free-plan
\* administrators at the boundary, however interleaved, a tenant on the free
\* plan that started within the limit owns at most one Condominio more than
\* the limit, and each of its Condominios holds at most one Unidade more than
\* the limit.
C21_OverrunAtMostOne ==
    \A adm \in FreemiumTenants :
        /\ CountCondominios(adm) <= FreemiumMaxCondominios + 1
        /\ \A c \in DOMAIN condominios :
              condominios[c].administradoraId = adm
                 => CountUnidades(c) <= FreemiumMaxUnidades + 1

====
